---- MODULE Spec2Model ----
(***************************************************************************)
(* WB Canvas: the scene store (canvas-store.ts), its undo/redo history and *)
(* the pointer handlers of the Canvas component that drive it.             *)
(*                                                                         *)
(* Element ids and group ids are nanoid strings in the program; the model  *)
(* draws them from finite pools and treats an id that occurs nowhere in    *)
(* the state as the fresh id createId() returns.  History entry ids are a  *)
(* counter.  Date.now() is the variable now, advanced by Tick.             *)
(* A JS object keeps its keys in insertion order: the elements map is the  *)
(* pair (elements, elementKeys).                                           *)
(***************************************************************************)
EXTENDS Integers, Sequences, FiniteSets, TLC

\* ------------------------------------------------------------------ bounds
MaxElems == 2
MaxGroups == 1
MaxEntries == 2
MaxClock == 1
MaxCoord == 1
MaxCells == 3
MaxDangling == 2
MaxScaleDigits == 3

IdNames == <<"e1", "e2", "e3", "e4", "e5", "e6">>
GroupNames == <<"g1", "g2", "g3", "g4">>
Pool == {IdNames[i] : i \in 1..MaxElems}
GroupPool == {GroupNames[i] : i \in 1..MaxGroups}
Coords == {20 * i : i \in 0..MaxCoord}

\* ------------------------------------------------------- program constants
MaxHistory == 100
GridSize == 20
DuplicateOffset == 20
PasteOffset == 20
MinDraftSize == 5

\* ----------------------------------------------------------------- values
Null == [null |-> TRUE]
Undefined == "undefined"
NoGroup == "undefined"
\* hoveredId: string | null
NoId == "null"
\* resizeHandle: ResizeHandle | null
NoHandle == "null"

VARIABLES
    elements, elementKeys, elementOrder, selectedIds,
    history, historyIndex, clipboard, activeTool, isDrawing, snapToGrid,
    dragStart, currentElement, selectionBox, isDraggingElement,
    dragStartCanvas, draggedElementStart,
    hoveredId, now, nextEntryId, setLog, gestureStart, removed, lastCall,
    transform, gridEnabled, isPanning, isResizing, resizeHandle,
    isSpacePressed, resizeStart, seenSpacePressed, seenResizeStart

storeVars == <<elements, elementKeys, elementOrder, selectedIds,
               history, historyIndex, clipboard, activeTool, isDrawing, snapToGrid,
               hoveredId, transform, gridEnabled, isPanning, isResizing, resizeHandle>>
canvasVars == <<dragStart, currentElement, selectionBox, isDraggingElement,
                dragStartCanvas, draggedElementStart, isSpacePressed, resizeStart>>
\* the values the memoized handlers hold of component state that is not among
\* their dependencies: isSpacePressed in handleMouseDown, resizeStart in
\* handleMouseMove
closureVars == <<seenSpacePressed, seenResizeStart>>
vars == <<storeVars, canvasVars, closureVars, now, nextEntryId, setLog, gestureStart, removed,
          lastCall>>

\* ---------------------------------------------------------------- helpers
Range(s) == {s[i] : i \in 1..Len(s)}

Includes(s, x) == x \in Range(s)

RECURSIVE Filter(_, _)
Filter(s, keep) ==
    IF s = <<>> THEN <<>>
    ELSE IF Head(s) \in keep THEN <<Head(s)>> \o Filter(Tail(s), keep)
         ELSE Filter(Tail(s), keep)

\* Array.prototype.indexOf, 0-based, -1 when absent
IndexOf(s, x) ==
    IF x \in Range(s) THEN (CHOOSE i \in 1..Len(s) : s[i] = x /\ \A j \in 1..(i-1) : s[j] # x) - 1
    ELSE -1

\* splice(idx, 1) with a 0-based idx
RemoveAt(s, idx) == SubSeq(s, 1, idx) \o SubSeq(s, idx + 2, Len(s))

\* the first occurrence of x removed, as indexOf + splice do
RemoveFirst(s, x) == IF IndexOf(s, x) # -1 THEN RemoveAt(s, IndexOf(s, x)) ELSE s

DropKey(f, k) == [j \in (DOMAIN f) \ {k} |-> f[j]]

PutKey(f, k, v) == [j \in (DOMAIN f) \cup {k} |-> IF j = k THEN v ELSE f[j]]

\* Math.round(v / g) * g; Math.round rounds halves up
RoundTo(v, g) == ((2 * v + g) \div (2 * g)) * g

Min2(a, b) == IF a < b THEN a ELSE b
Max2(a, b) == IF a > b THEN a ELSE b
Abs(a) == IF a < 0 THEN -a ELSE a

\* the scale of the viewport is a JS number; the model keeps it as a fraction
\* in lowest terms with a positive denominator
RECURSIVE GCD(_, _)
GCD(a, b) == IF b = 0 THEN a ELSE GCD(b, a % b)

Ratio(n, d) ==
    LET g == GCD(Abs(n), Abs(d))
        sign == IF d < 0 THEN -1 ELSE 1
    IN [num |-> sign * (n \div g), den |-> sign * (d \div g)]

One == Ratio(1, 1)
Times(a, b) == Ratio(a.num * b.num, a.den * b.den)
Over(a, b) == Ratio(a.num * b.den, a.den * b.num)
Less(a, b) == a.num * b.den < b.num * a.den
MinRatio(a, b) == IF Less(b, a) THEN b ELSE a
MaxRatio(a, b) == IF Less(a, b) THEN b ELSE a
IsWhole(a) == a.den = 1
Whole(a) == a.num \div a.den

\* the store state as one record, so that operations compose
St == [elements |-> elements, elementKeys |-> elementKeys,
       elementOrder |-> elementOrder, selectedIds |-> selectedIds,
       history |-> history, historyIndex |-> historyIndex,
       clipboard |-> clipboard, activeTool |-> activeTool,
       isDrawing |-> isDrawing, snapToGrid |-> snapToGrid,
       hoveredId |-> hoveredId, transform |-> transform, gridEnabled |-> gridEnabled,
       isPanning |-> isPanning, isResizing |-> isResizing, resizeHandle |-> resizeHandle,
       nextEntryId |-> nextEntryId, setLog |-> setLog, lastCall |-> lastCall]

\* no store operation was called directly in the step
NoCall == [op |-> "none", args |-> <<>>]

initialState ==
    [elements |-> <<>>, elementKeys |-> <<>>, elementOrder |-> <<>>,
     selectedIds |-> <<>>, history |-> <<>>, historyIndex |-> -1,
     clipboard |-> <<>>, activeTool |-> "select", isDrawing |-> FALSE,
     snapToGrid |-> TRUE, hoveredId |-> NoId,
     transform |-> [x |-> 0, y |-> 0, scale |-> One], gridEnabled |-> TRUE,
     isPanning |-> FALSE, isResizing |-> FALSE, resizeHandle |-> NoHandle,
     nextEntryId |-> 1, setLog |-> <<>>, lastCall |-> NoCall]

\* draft.elements[id] = el: a new key goes last, an existing key keeps its place
SetElement(s, id, el) ==
    [s EXCEPT !.elements = PutKey(s.elements, id, el),
              !.elementKeys = IF Includes(s.elementKeys, id) THEN @ ELSE Append(@, id)]

\* delete draft.elements[id]
DeleteElement(s, id) ==
    [s EXCEPT !.elements = DropKey(s.elements, id),
              !.elementKeys = RemoveFirst(@, id)]

Live(s, id) == id \in DOMAIN s.elements

\* one set() call of the store publishes the new state to its subscribers;
\* the log keeps, per published state of the running operation, whether the
\* document and the history differ from the previously published state
Published(prev, s) ==
    [s EXCEPT !.setLog = Append(@, [doc |-> <<s.elements, s.elementOrder>> # <<prev.elements, prev.elementOrder>>,
                                    hist |-> s.history # prev.history])]

\* ------------------------------------------------------------- history
\* pushHistory without the slice that removes the entries above the cursor
pushHistoryKeepingRedo(s, entry, t) ==
    LET pushed == Append(s.history, [entry EXCEPT !.id = s.nextEntryId, !.timestamp = t])
        over == Len(pushed) > MaxHistory
    IN [s EXCEPT !.history = IF over THEN Tail(pushed) ELSE pushed,
                 !.historyIndex = IF over THEN Len(pushed) - 2 ELSE Len(pushed) - 1,
                 !.nextEntryId = @ + 1]

\* pushHistory without the limit on the stack's length
pushHistoryUnbounded(s, entry, t) ==
    LET cut == SubSeq(s.history, 1, s.historyIndex + 1)
        pushed == Append(cut, [entry EXCEPT !.id = s.nextEntryId, !.timestamp = t])
    IN [s EXCEPT !.history = pushed,
                 !.historyIndex = Len(pushed) - 1,
                 !.nextEntryId = @ + 1]

pushHistory(s, entry, t) ==
    LET cut == SubSeq(s.history, 1, s.historyIndex + 1)
        pushed == Append(cut, [entry EXCEPT !.id = s.nextEntryId, !.timestamp = t])
        over == Len(pushed) > MaxHistory
    IN [s EXCEPT !.history = IF over THEN Tail(pushed) ELSE pushed,
                 !.historyIndex = IF over THEN Len(pushed) - 2 ELSE Len(pushed) - 1,
                 !.nextEntryId = @ + 1]

Entry(type, ids, before, after) ==
    [id |-> 0, timestamp |-> 0, type |-> type, elementIds |-> ids,
     before |-> before, after |-> after]

\* the forEach body shared by undo (side = before) and redo (side = after)
\* the forEach body that puts a restored id on top whether or not
\* elementOrder holds it already
RECURSIVE RestoreOnTop(_, _, _)
RestoreOnTop(s, ids, side) ==
    IF ids = <<>> THEN s
    ELSE LET id == Head(ids)
             v == side[id]
             s1 == IF v = Null
                   THEN [DeleteElement(s, id) EXCEPT !.elementOrder = RemoveFirst(@, id)]
                   ELSE [SetElement(s, id, v) EXCEPT !.elementOrder = Append(@, id)]
         IN RestoreOnTop(s1, Tail(ids), side)

RECURSIVE Restore(_, _, _)
Restore(s, ids, side) ==
    IF ids = <<>> THEN s
    ELSE LET id == Head(ids)
             v == side[id]
             s1 == IF v = Null
                   THEN [DeleteElement(s, id) EXCEPT !.elementOrder = RemoveFirst(@, id)]
                   ELSE [SetElement(s, id, v) EXCEPT
                            !.elementOrder = IF Includes(@, id) THEN @ ELSE Append(@, id)]
         IN Restore(s1, Tail(ids), side)

canUndo(s) == s.historyIndex >= 0
canRedo(s) == s.historyIndex < Len(s.history) - 1

\* undo that writes the entry's after-state back instead of its before-state
undoKeepingAfter(s) ==
    IF s.historyIndex < 0 THEN s
    ELSE LET entry == s.history[s.historyIndex + 1]
         IN [Restore(s, entry.elementIds, entry.after) EXCEPT !.historyIndex = @ - 1]

\* undo that steps the cursor down even when nothing is left to undo
undoBelowBottom(s) ==
    IF s.historyIndex < 0 THEN [s EXCEPT !.historyIndex = @ - 1]
    ELSE LET entry == s.history[s.historyIndex + 1]
         IN [Restore(s, entry.elementIds, entry.before) EXCEPT !.historyIndex = @ - 1]

undo(s) ==
    IF s.historyIndex < 0 THEN s
    ELSE LET entry == s.history[s.historyIndex + 1]
         IN [Restore(s, entry.elementIds, entry.before) EXCEPT !.historyIndex = @ - 1]

redo(s) ==
    IF s.historyIndex >= Len(s.history) - 1 THEN s
    ELSE LET entry == s.history[s.historyIndex + 2]
         IN [Restore(s, entry.elementIds, entry.after) EXCEPT !.historyIndex = @ + 1]

\* ------------------------------------------------------------- elements
addElement(s, el, t) ==
    LET s1 == [SetElement(s, el.id, el) EXCEPT !.elementOrder = Append(@, el.id)]
        p1 == Published(s, s1)
        s2 == pushHistory(p1, Entry("add", <<el.id>>, (el.id :> Null), (el.id :> el)), t)
    IN Published(p1, s2)

\* Object.assign(draft.elements[id], updates, { updatedAt: Date.now() })
Merge(el, updates, t) ==
    [f \in DOMAIN el |-> IF f = "updatedAt" THEN t
                         ELSE IF f \in DOMAIN updates THEN updates[f] ELSE el[f]]

\* updateElement that takes the before-snapshot after the merge
updateElementLateBefore(s, id, updates, t) ==
    IF ~Live(s, id) THEN s
    ELSE LET s1 == [s EXCEPT !.elements[id] = Merge(s.elements[id], updates, t)]
             p1 == Published(s, s1)
             s2 == pushHistory(p1, Entry("update", <<id>>, (id :> s1.elements[id]),
                                         (id :> s1.elements[id])), t)
         IN Published(p1, s2)

\* updateElement without the early return for an id that is not in the map
updateElementUnchecked(s, id, updates, t) ==
    LET old == IF Live(s, id) THEN s.elements[id] ELSE Null
        s1 == IF Live(s, id) THEN [s EXCEPT !.elements[id] = Merge(old, updates, t)] ELSE s
        p1 == Published(s, s1)
        s2 == pushHistory(p1, Entry("update", <<id>>, (id :> old),
                                    (id :> IF Live(s1, id) THEN s1.elements[id] ELSE Null)), t)
    IN Published(p1, s2)

updateElement(s, id, updates, t) ==
    IF ~Live(s, id) THEN s
    ELSE LET old == s.elements[id]
             s1 == [s EXCEPT !.elements[id] = Merge(old, updates, t)]
             p1 == Published(s, s1)
             s2 == pushHistory(p1, Entry("update", <<id>>, (id :> old), (id :> s1.elements[id])), t)
         IN Published(p1, s2)

\* updateElementSilent that leaves updatedAt as it was
updateElementSilentNoStamp(s, id, updates, t) ==
    IF ~Live(s, id) THEN s
    ELSE [s EXCEPT !.elements[id] = Merge(s.elements[id], updates, s.elements[id].updatedAt)]

updateElementSilent(s, id, updates, t) ==
    IF ~Live(s, id) THEN s
    ELSE [s EXCEPT !.elements[id] = Merge(s.elements[id], updates, t)]

RECURSIVE DeleteAll(_, _)
DeleteAll(s, ids) ==
    IF ids = <<>> THEN s
    ELSE DeleteAll([DeleteElement(s, Head(ids)) EXCEPT !.elementOrder = RemoveFirst(@, Head(ids))],
                   Tail(ids))

deleteElements(s, ids, t) ==
    LET before == [id \in Range(ids) |-> IF Live(s, id) THEN s.elements[id] ELSE Null]
        after == [id \in Range(ids) |-> Null]
        d == DeleteAll(s, ids)
        s1 == [d EXCEPT !.selectedIds = Filter(@, Range(@) \ Range(ids))]
        p1 == Published(s, s1)
        s2 == pushHistory(p1, Entry("delete", ids, before, after), t)
    IN Published(p1, s2)

\* JSON.parse(JSON.stringify(el)): every modelled field is a finite number,
\* a boolean or a string and survives; an undefined groupId is dropped and
\* reads back as undefined
JsonCopy(el) == [f \in DOMAIN el |-> el[f]]

\* the copies duplicateElements and paste build: fresh id, offset position,
\* fresh timestamps
RECURSIVE Clones(_, _, _, _, _)
Clones(els, fresh, dx, dy, t) ==
    IF els = <<>> THEN <<>>
    ELSE <<[JsonCopy(Head(els)) EXCEPT !.id = Head(fresh), !.x = Head(els).x + dx,
                                       !.y = Head(els).y + dy,
                                       !.createdAt = t, !.updatedAt = t]>>
         \o Clones(Tail(els), Tail(fresh), dx, dy, t)

RECURSIVE InsertAll(_, _)
InsertAll(s, els) ==
    IF els = <<>> THEN s
    ELSE InsertAll([SetElement(s, Head(els).id, Head(els)) EXCEPT
                        !.elementOrder = Append(@, Head(els).id)], Tail(els))

Ids(els) == [i \in 1..Len(els) |-> els[i].id]

\* ids.map(id => state.elements[id]).filter(Boolean)
Found(s, ids) ==
    LET liveIds == Filter(ids, DOMAIN s.elements)
    IN [i \in 1..Len(liveIds) |-> s.elements[liveIds[i]]]

\* duplicateElements that records the copies as an add entry
duplicateElementsRecorded(s, ids, fresh, t) ==
    LET newElements == Clones(Found(s, ids), fresh, DuplicateOffset, DuplicateOffset, t)
        s1 == [InsertAll(s, newElements) EXCEPT !.selectedIds = Ids(newElements)]
        added == Range(Ids(newElements))
    IN pushHistory(s1, Entry("add", Ids(newElements), [id \in added |-> Null],
                             [id \in added |-> s1.elements[id]]), t)

duplicateElements(s, ids, fresh, t) ==
    LET newElements == Clones(Found(s, ids), fresh, DuplicateOffset, DuplicateOffset, t)
    IN [InsertAll(s, newElements) EXCEPT !.selectedIds = Ids(newElements)]

\* ------------------------------------------------------------ selection
setSelection(s, ids) == [s EXCEPT !.selectedIds = ids]

addToSelection(s, id) ==
    [s EXCEPT !.selectedIds = IF Includes(@, id) THEN @ ELSE Append(@, id)]

removeFromSelection(s, id) == [s EXCEPT !.selectedIds = Filter(@, Range(@) \ {id})]

clearSelection(s) == [s EXCEPT !.selectedIds = <<>>]

setHovered(s, id) == [s EXCEPT !.hoveredId = id]

selectAll(s) ==
    [s EXCEPT !.selectedIds = Filter(s.elementKeys, {id \in DOMAIN s.elements : ~s.elements[id].locked})]

\* setTool that leaves the selection as it is
setToolKeepingSelection(s, tool) == [s EXCEPT !.activeTool = tool]

setTool(s, tool) ==
    [s EXCEPT !.activeTool = tool,
              !.selectedIds = IF tool # "select" THEN <<>> ELSE @]

\* ------------------------------------------------------------ clipboard
copy(s) ==
    LET sel == Found(s, s.selectedIds)
    IN [s EXCEPT !.clipboard = [i \in 1..Len(sel) |-> JsonCopy(sel[i])]]

\* cut reads state once: copy() and deleteElements(state.selectedIds)
cut(s, t) == deleteElements(copy(s), s.selectedIds, t)

paste(s, offset, fresh, t) ==
    IF Len(s.clipboard) = 0 THEN s
    ELSE LET newElements == Clones(s.clipboard, fresh, offset.x, offset.y, t)
         IN [InsertAll(s, newElements) EXCEPT !.selectedIds = Ids(newElements)]

\* -------------------------------------------------------------- z-order
bringToFront(s, ids) ==
    [s EXCEPT !.elementOrder = Filter(@, Range(@) \ Range(ids)) \o ids]

sendToBack(s, ids) ==
    [s EXCEPT !.elementOrder = ids \o Filter(@, Range(@) \ Range(ids))]

\* a JS array read outside 0..length-1: index -1 reads the property "-1"
\* (m1), any other index reads undefined
ReadAt(arr, m1, idx) ==
    IF idx = -1 THEN m1
    ELSE IF idx >= 0 /\ idx < Len(arr) THEN arr[idx + 1] ELSE Undefined

\* a JS array write: index -1 sets the property "-1" and leaves the entries
\* alone
WriteAt(am, idx, v) ==
    IF idx = -1 THEN [am EXCEPT !.m1 = v]
    ELSE [am EXCEPT !.arr[idx + 1] = v]

\* [a[i], a[j]] = [a[j], a[i]]
Swap(am, i, j) ==
    LET vi == ReadAt(am.arr, am.m1, i)
        vj == ReadAt(am.arr, am.m1, j)
    IN WriteAt(WriteAt(am, i, vj), j, vi)

RECURSIVE ForwardAll(_, _)
ForwardAll(am, ids) ==
    IF ids = <<>> THEN am
    ELSE LET idx == IndexOf(am.arr, Head(ids))
         IN ForwardAll(IF idx < Len(am.arr) - 1 THEN Swap(am, idx, idx + 1) ELSE am, Tail(ids))

RECURSIVE BackwardAll(_, _)
BackwardAll(am, ids) ==
    IF ids = <<>> THEN am
    ELSE LET idx == IndexOf(am.arr, Head(ids))
         IN BackwardAll(IF idx > 0 THEN Swap(am, idx, idx - 1) ELSE am, Tail(ids))

bringForward(s, ids) ==
    [s EXCEPT !.elementOrder = ForwardAll([arr |-> @, m1 |-> Undefined], ids).arr]

sendBackward(s, ids) ==
    [s EXCEPT !.elementOrder = BackwardAll([arr |-> @, m1 |-> Undefined], ids).arr]

\* ------------------------------------------------------------- grouping
group(s, ids, groupId) ==
    [s EXCEPT !.elements = [id \in DOMAIN @ |->
        IF id \in Range(ids) THEN [@[id] EXCEPT !.groupId = groupId] ELSE @[id]]]

ungroup(s, groupId) ==
    [s EXCEPT !.elements = [id \in DOMAIN @ |->
        IF @[id].groupId = groupId THEN [@[id] EXCEPT !.groupId = NoGroup] ELSE @[id]]]

\* ------------------------------------------------------------ alignment
\* bounds of a non-empty element list (the null result for an empty list is
\* decided by the callers' length checks)
RECURSIVE BoundsFold(_, _)
BoundsFold(els, acc) ==
    IF els = <<>> THEN acc
    ELSE LET el == Head(els)
         IN BoundsFold(Tail(els), [minX |-> Min2(acc.minX, el.x),
                                   minY |-> Min2(acc.minY, el.y),
                                   maxX |-> Max2(acc.maxX, el.x + el.width),
                                   maxY |-> Max2(acc.maxY, el.y + el.height)])

getElementsBounds(els) ==
    LET h == Head(els)
        m == BoundsFold(Tail(els), [minX |-> h.x, minY |-> h.y,
                                    maxX |-> h.x + h.width, maxY |-> h.y + h.height])
    IN [x |-> m.minX, y |-> m.minY, width |-> m.maxX - m.minX, height |-> m.maxY - m.minY]

\* the halves and gaps of alignment and distribution are JS floating-point
\* quotients; Exact(a, b) says the quotient is an integer, and the actions
\* draw their inputs from the states in which it is
Exact(a, b) == a % b = 0

AlignedField(el, bounds, alignment) ==
    CASE alignment = "left"   -> [f |-> "x", v |-> bounds.x]
      [] alignment = "center" -> [f |-> "x", v |-> bounds.x + (bounds.width - el.width) \div 2]
      [] alignment = "right"  -> [f |-> "x", v |-> bounds.x + bounds.width - el.width]
      [] alignment = "top"    -> [f |-> "y", v |-> bounds.y]
      [] alignment = "middle" -> [f |-> "y", v |-> bounds.y + (bounds.height - el.height) \div 2]
      [] alignment = "bottom" -> [f |-> "y", v |-> bounds.y + bounds.height - el.height]

RECURSIVE AlignAll(_, _, _, _)
AlignAll(s, els, bounds, alignment) ==
    IF els = <<>> THEN s
    ELSE LET el == Head(els)
             a == AlignedField(el, bounds, alignment)
         IN AlignAll([s EXCEPT !.elements[el.id] =
                         IF a.f = "x" THEN [@ EXCEPT !.x = a.v] ELSE [@ EXCEPT !.y = a.v]],
                     Tail(els), bounds, alignment)

alignElements(s, ids, alignment) ==
    LET els == Found(s, ids)
    IN IF Len(els) < 2 THEN s
       ELSE AlignAll(s, els, getElementsBounds(els), alignment)

\* Array.prototype.sort with a numeric comparator is stable; key is the
\* field compared ("x" or "y")
RECURSIVE InsertSorted(_, _, _)
InsertSorted(sorted, el, key) ==
    IF sorted = <<>> THEN <<el>>
    ELSE IF el[key] < Head(sorted)[key] THEN <<el>> \o sorted
         ELSE <<Head(sorted)>> \o InsertSorted(Tail(sorted), el, key)

\* the elements in the order of the ids given, not sorted
SortAsGiven(els, key) == els

RECURSIVE SortBy(_, _)
SortBy(els, key) ==
    IF els = <<>> THEN <<>>
    ELSE InsertSorted(SortBy(SubSeq(els, 1, Len(els) - 1), key), els[Len(els)], key)

RECURSIVE SumOver(_, _)
SumOver(els, f) == IF els = <<>> THEN 0 ELSE Head(els)[f] + SumOver(Tail(els), f)

DistributeGapNumerator(sorted, direction) ==
    LET first == sorted[1]
        last == sorted[Len(sorted)]
    IN IF direction = "horizontal"
       THEN (last.x + last.width) - first.x - SumOver(sorted, "width")
       ELSE (last.y + last.height) - first.y - SumOver(sorted, "height")

RECURSIVE PlaceAll(_, _, _, _, _)
PlaceAll(s, sorted, pos, gap, direction) ==
    IF sorted = <<>> THEN s
    ELSE LET el == Head(sorted)
         IN IF direction = "horizontal"
            THEN PlaceAll([s EXCEPT !.elements[el.id].x = pos], Tail(sorted),
                          pos + el.width + gap, gap, direction)
            ELSE PlaceAll([s EXCEPT !.elements[el.id].y = pos], Tail(sorted),
                          pos + el.height + gap, gap, direction)

distributeElements(s, ids, direction) ==
    LET els == Found(s, ids)
        sorted == IF direction = "horizontal" THEN SortBy(els, "x") ELSE SortBy(els, "y")
        gap == DistributeGapNumerator(sorted, direction) \div (Len(sorted) - 1)
    IN IF Len(els) < 3 THEN s
       ELSE PlaceAll(s, sorted, IF direction = "horizontal" THEN sorted[1].x ELSE sorted[1].y,
                     gap, direction)

\* -------------------------------------------------------- import / clear
\* the text handed to importFromJSON, by what JSON.parse makes of it:
\* parses = FALSE is text JSON.parse rejects; hasElements / hasOrder say
\* whether the parsed object carries the field
\* importFromJSON that leaves the history as it is
importFromJSONKeepingHistory(s, doc) ==
    IF ~doc.parses THEN s
    ELSE IF ~doc.hasOrder /\ ~doc.hasElements THEN s
    ELSE [s EXCEPT !.elements = IF doc.hasElements THEN doc.elements ELSE <<>>,
                   !.elementKeys = IF doc.hasElements THEN doc.elementKeys ELSE <<>>,
                   !.elementOrder = IF doc.hasOrder THEN doc.elementOrder ELSE doc.elementKeys,
                   !.selectedIds = <<>>]

importFromJSON(s, doc) ==
    IF ~doc.parses THEN s
    ELSE IF ~doc.hasOrder /\ ~doc.hasElements THEN s   \* Object.keys(undefined) throws inside set(): caught, draft dropped
    ELSE [s EXCEPT !.elements = IF doc.hasElements THEN doc.elements ELSE <<>>,
                   !.elementKeys = IF doc.hasElements THEN doc.elementKeys ELSE <<>>,
                   !.elementOrder = IF doc.hasOrder THEN doc.elementOrder ELSE doc.elementKeys,
                   !.selectedIds = <<>>,
                   !.history = <<>>,
                   !.historyIndex = -1]

clear(s) ==
    [s EXCEPT !.elements = <<>>, !.elementKeys = <<>>, !.elementOrder = <<>>,
              !.selectedIds = <<>>, !.history = <<>>, !.historyIndex = -1]

\* Object.assign(draft.transform, t): the fields t carries replace the old ones
setTransform(s, t) ==
    [s EXCEPT !.transform = [k \in DOMAIN @ |-> IF k \in DOMAIN t THEN t[k] ELSE @[k]]]

Padding == 100
MaxScale == Ratio(10, 1)
MinScale == Ratio(1, 10)
ZoomStep == Ratio(6, 5)
WheelIn == Ratio(11, 10)
WheelOut == Ratio(9, 10)

zoomIn(s) == [s EXCEPT !.transform.scale = MinRatio(Times(@, ZoomStep), MaxScale)]

zoomOut(s) == [s EXCEPT !.transform.scale = MaxRatio(Over(@, ZoomStep), MinScale)]

\* Object.values(state.elements)
Values(s) == [i \in 1..Len(s.elementKeys) |-> s.elements[s.elementKeys[i]]]

\* min(viewWidth / bounds.width, viewHeight / bounds.height, 1), view being
\* the window's innerWidth and innerHeight
FitScale(bounds, view) ==
    MinRatio(MinRatio(Ratio(view.innerWidth - Padding * 2, bounds.width),
                      Ratio(view.innerHeight - Padding * 2, bounds.height)), One)

\* -start * scale + (inner - size * scale) / 2
FitOffset(start, size, inner, scale) ==
    Ratio(inner * scale.den - size * scale.num - 2 * start * scale.num, 2 * scale.den)

zoomToFit(s, view) ==
    IF Len(Values(s)) = 0 THEN s
    ELSE LET bounds == getElementsBounds(Values(s))
             scale == FitScale(bounds, view)
         IN [s EXCEPT !.transform =
                 [x |-> Whole(FitOffset(bounds.x, bounds.width, view.innerWidth, scale)),
                  y |-> Whole(FitOffset(bounds.y, bounds.height, view.innerHeight, scale)),
                  scale |-> scale]]

resetZoom(s) == [s EXCEPT !.transform = [x |-> 0, y |-> 0, scale |-> One]]

toggleGrid(s) == [s EXCEPT !.gridEnabled = ~@]

toggleSnapToGrid(s) == [s EXCEPT !.snapToGrid = ~@]

setDrawing(s, b) == [s EXCEPT !.isDrawing = b]

\* the flag is set whatever the argument
setPanningOn(s, b) == [s EXCEPT !.isPanning = TRUE]

setPanning(s, b) == [s EXCEPT !.isPanning = b]

setResizing(s, b, handle) == [s EXCEPT !.isResizing = b, !.resizeHandle = handle]

\* the fields of the store, without the bookkeeping of the model
StoreFields(s) ==
    <<s.elements, s.elementKeys, s.elementOrder, s.selectedIds, s.history, s.historyIndex,
      s.clipboard, s.activeTool, s.isDrawing, s.snapToGrid, s.hoveredId, s.transform,
      s.gridEnabled, s.isPanning, s.isResizing, s.resizeHandle>>

\* ================================================================ Canvas
Tools == {"select", "rectangle", "text"}
\* the pointer visits the grid diagonal and the x axis
PointerPoints == {[x |-> c, y |-> c] : c \in Coords} \cup {[x |-> c, y |-> 0] : c \in Coords}

createBaseElement(id, type, x, y, t) ==
    [id |-> id, type |-> type, x |-> x, y |-> y, width |-> 0, height |-> 0,
     locked |-> FALSE, groupId |-> NoGroup, createdAt |-> t, updatedAt |-> t]

\* (screen - transform) / scale; the quotient is a whole number wherever a
\* pointer is mapped, the scale being 1 there
screenToCanvas(p) ==
    [x |-> ((p.x - transform.x) * transform.scale.den) \div transform.scale.num,
     y |-> ((p.y - transform.y) * transform.scale.den) \div transform.scale.num]

Snap(v, snap) == IF snap THEN RoundTo(v, GridSize) ELSE v

snapToGridPoint(p, snap) == [x |-> Snap(p.x, snap), y |-> Snap(p.y, snap)]

selectOrderedElements(s) == Found(s, s.elementOrder)

Contains(el, p) ==
    p.x >= el.x /\ p.x <= el.x + el.width /\ p.y >= el.y /\ p.y <= el.y + el.height

\* the topmost (last) element whose box contains the point, or Null
findElementAtPoint(els, p) ==
    LET hits == {i \in 1..Len(els) : Contains(els[i], p)}
    IN IF hits = {} THEN Null
       ELSE els[CHOOSE i \in hits : \A j \in hits : j <= i]

RECURSIVE FilterInBox(_, _, _, _, _)
FilterInBox(els, minX, maxX, minY, maxY) ==
    IF els = <<>> THEN <<>>
    ELSE LET el == Head(els)
             rest == FilterInBox(Tail(els), minX, maxX, minY, maxY)
         IN IF el.x >= minX /\ el.x + el.width <= maxX /\ el.y >= minY /\ el.y + el.height <= maxY
            THEN <<el>> \o rest ELSE rest

\* the corners are taken as top-left and bottom-right without sorting them
findElementsInBoxAsGiven(els, start, end) == FilterInBox(els, start.x, end.x, start.y, end.y)

findElementsInBox(els, start, end) ==
    FilterInBox(els, Min2(start.x, end.x), Max2(start.x, end.x),
                Min2(start.y, end.y), Max2(start.y, end.y))

\* ------------------------------------------------------------- id supply
RECURSIVE EntryIds(_)
EntryIds(h) == IF h = <<>> THEN {} ELSE Range(Head(h).elementIds) \cup EntryIds(Tail(h))

UsedIds ==
    (DOMAIN elements) \cup Range(elementOrder) \cup Range(selectedIds)
    \cup EntryIds(history) \cup Range(Ids(clipboard))
    \cup (IF currentElement = Null THEN {} ELSE {currentElement.id})
    \cup Range(Ids(draggedElementStart))
    \cup (DOMAIN gestureStart.boxes)
    \cup ({hoveredId} \ {NoId})

RECURSIVE SetToSeq(_)
SetToSeq(S) == IF S = {} THEN <<>>
               ELSE LET x == CHOOSE y \in S : TRUE IN <<x>> \o SetToSeq(S \ {x})

\* createId(): ids that occur nowhere in the state, as many as are left
FreshIds == SetToSeq(Pool \ UsedIds)

UsedGroups ==
    {elements[id].groupId : id \in DOMAIN elements}
    \cup {clipboard[i].groupId : i \in 1..Len(clipboard)}
    \cup UNION {{e.before[id].groupId : id \in {j \in DOMAIN e.before : e.before[j] # Null}}
                \cup {e.after[id].groupId : id \in {j \in DOMAIN e.after : e.after[j] # Null}}
                : e \in Range(history)}

FreshGroups == GroupPool \ UsedGroups

\* -------------------------------------------------------------- actions
EntryNumbers(h) == {h[i].id : i \in 1..Len(h)}

\* the handler's result becomes the store state; removed collects the ids of
\* the history entries that have left the stack
Apply(s) ==
    /\ elements' = s.elements
    /\ elementKeys' = s.elementKeys
    /\ elementOrder' = s.elementOrder
    /\ selectedIds' = s.selectedIds
    /\ history' = s.history
    /\ historyIndex' = s.historyIndex
    /\ clipboard' = s.clipboard
    /\ activeTool' = s.activeTool
    /\ isDrawing' = s.isDrawing
    /\ snapToGrid' = s.snapToGrid
    /\ nextEntryId' = s.nextEntryId
    /\ hoveredId' = s.hoveredId
    /\ transform' = s.transform
    /\ gridEnabled' = s.gridEnabled
    /\ isPanning' = s.isPanning
    /\ isResizing' = s.isResizing
    /\ resizeHandle' = s.resizeHandle
    /\ setLog' = s.setLog
    /\ lastCall' = s.lastCall
    /\ removed' = removed \cup (EntryNumbers(history) \ EntryNumbers(s.history))

\* the store state a handler starts from
Begin == [St EXCEPT !.setLog = <<>>, !.lastCall = NoCall]

\* the entry-id counter, the coordinates that paste and duplicate push
\* outwards and the length that undefined entries give elementOrder are
\* capped: a handler that would pass a cap is not taken
Within(s) ==
    /\ s.nextEntryId <= MaxEntries + 1
    /\ Len(s.elementOrder) <= Cardinality(DOMAIN s.elements) + MaxDangling
    /\ \A id \in DOMAIN s.elements : /\ s.elements[id].x <= GridSize * MaxCells
                                     /\ s.elements[id].y <= GridSize * MaxCells
    /\ Abs(s.transform.x) <= GridSize * MaxCoord
    /\ Abs(s.transform.y) <= GridSize * MaxCoord

\* the component renders again after the step: a handler is made anew when
\* one of its dependencies has changed, and every change of the store changes
\* the dependency elements (selectOrderedElements builds a new array);
\* replaced tells that dragStart, selectionBox or currentElement was set
Render(replaced) ==
    LET changed == storeVars' # storeVars
    IN /\ seenSpacePressed' = IF changed THEN isSpacePressed' ELSE seenSpacePressed
       /\ seenResizeStart' = IF changed \/ replaced THEN resizeStart' ELSE seenResizeStart

StoreOnly(s) ==
    /\ Within(s)
    /\ Apply(s)
    /\ UNCHANGED <<canvasVars, now, gestureStart>>
    /\ Render(FALSE)

\* the application started on the store state s
Start(s) ==
    /\ elements = s.elements
    /\ elementKeys = s.elementKeys
    /\ elementOrder = s.elementOrder
    /\ selectedIds = s.selectedIds
    /\ history = s.history
    /\ historyIndex = s.historyIndex
    /\ clipboard = s.clipboard
    /\ activeTool = s.activeTool
    /\ isDrawing = s.isDrawing
    /\ snapToGrid = s.snapToGrid
    /\ nextEntryId = s.nextEntryId
    /\ hoveredId = s.hoveredId
    /\ transform = s.transform
    /\ gridEnabled = s.gridEnabled
    /\ isPanning = s.isPanning
    /\ isResizing = s.isResizing
    /\ resizeHandle = s.resizeHandle
    /\ setLog = s.setLog
    /\ lastCall = s.lastCall
    /\ dragStart = Null
    /\ currentElement = Null
    /\ selectionBox = Null
    /\ isDraggingElement = FALSE
    /\ dragStartCanvas = Null
    /\ draggedElementStart = <<>>
    /\ isSpacePressed = FALSE
    /\ resizeStart = Null
    /\ seenSpacePressed = FALSE
    /\ seenResizeStart = Null
    /\ now = 0
    /\ gestureStart = [boxes |-> <<>>, entries |-> <<>>]
    /\ removed = {}

Init == Start(initialState)

\* Date.now() advances
Tick ==
    /\ now < MaxClock
    /\ now' = now + 1
    /\ lastCall' = NoCall
    /\ UNCHANGED <<storeVars, canvasVars, closureVars, nextEntryId, setLog, gestureStart, removed>>

\* ------------------------------------------------ keyboard, toolbar, menus
SetTool(tool) == StoreOnly(setTool(Begin, tool))

\* Escape that also drops the drag in progress
EscapeEndingDrag ==
    LET s == setTool(clearSelection(Begin), "select")
    IN /\ Within(s)
       /\ Apply(s)
       /\ isDraggingElement' = FALSE
       /\ dragStartCanvas' = Null
       /\ draggedElementStart' = <<>>
       /\ UNCHANGED <<dragStart, currentElement, selectionBox, isSpacePressed, resizeStart,
                      now, gestureStart>>
       /\ Render(FALSE)

Escape == StoreOnly(setTool(clearSelection(Begin), "select"))

Undo ==
    /\ canUndo(St)
    /\ StoreOnly(undo(Begin))

Redo ==
    /\ canRedo(St)
    /\ StoreOnly(redo(Begin))

Copy == StoreOnly(copy(Begin))

Cut == StoreOnly(cut(Begin, now))

Paste ==
    /\ Len(clipboard) > 0
    /\ Len(FreshIds) >= Len(clipboard)
    /\ StoreOnly(paste(Begin, [x |-> PasteOffset, y |-> PasteOffset], FreshIds, now))

DeleteSelected ==
    /\ Len(selectedIds) > 0
    /\ StoreOnly(deleteElements(Begin, selectedIds, now))

Duplicate ==
    /\ Len(selectedIds) > 0
    /\ Len(FreshIds) >= Len(Found(St, selectedIds))
    /\ StoreOnly(duplicateElements(Begin, selectedIds, FreshIds, now))

\* a store operation called directly, with its arguments
Call(op, args) == [op |-> op, args |-> args]

SelectAll == StoreOnly(selectAll(Begin))

BringToFront ==
    /\ Len(selectedIds) > 0
    /\ StoreOnly([bringToFront(Begin, selectedIds) EXCEPT !.lastCall = Call("bringToFront", selectedIds)])

SendToBack ==
    /\ Len(selectedIds) > 0
    /\ StoreOnly([sendToBack(Begin, selectedIds) EXCEPT !.lastCall = Call("sendToBack", selectedIds)])

BringForward ==
    /\ Len(selectedIds) > 0
    /\ StoreOnly([bringForward(Begin, selectedIds) EXCEPT !.lastCall = Call("bringForward", selectedIds)])

SendBackward ==
    /\ Len(selectedIds) > 0
    /\ StoreOnly([sendBackward(Begin, selectedIds) EXCEPT !.lastCall = Call("sendBackward", selectedIds)])

Group ==
    /\ Len(Found(St, selectedIds)) >= 2
    /\ \E g \in FreshGroups : StoreOnly(group(Begin, selectedIds, g))

RECURSIVE UngroupAll(_, _)
UngroupAll(s, gids) ==
    IF gids = <<>> THEN s ELSE UngroupAll(ungroup(s, Head(gids)), Tail(gids))

\* context menu: ungroup every group id carried by a selected element
Ungroup ==
    LET sel == Found(St, selectedIds)
        gids == {sel[i].groupId : i \in 1..Len(sel)} \ {NoGroup}
    IN /\ gids # {}
       /\ StoreOnly(UngroupAll(Begin, SetToSeq(gids)))

RECURSIVE UpdateEach(_, _, _, _)
UpdateEach(s, els, updates, t) ==
    IF els = <<>> THEN s
    ELSE UpdateEach(updateElement(s, Head(els).id, updates, t), Tail(els), updates, t)

\* context menu Lock / Unlock
ToggleLock ==
    LET sel == Found(St, selectedIds)
        isLocked == \E i \in 1..Len(sel) : sel[i].locked
    IN /\ Len(sel) > 0
       /\ StoreOnly(UpdateEach(Begin, sel, [locked |-> ~isLocked], now))

Alignments == {"left", "center", "right", "top", "middle", "bottom"}

Align(alignment) ==
    LET els == Found(St, selectedIds)
    IN /\ Len(els) >= 2
       /\ LET b == getElementsBounds(els)
          IN \A i \in 1..Len(els) : /\ Exact(b.width - els[i].width, 2)
                                    /\ Exact(b.height - els[i].height, 2)
       /\ StoreOnly(alignElements(Begin, selectedIds, alignment))

Distribute(direction) ==
    LET els == Found(St, selectedIds)
        sorted == SortBy(els, IF direction = "horizontal" THEN "x" ELSE "y")
    IN /\ Len(els) >= 3
       /\ Exact(DistributeGapNumerator(sorted, direction), Len(sorted) - 1)
       /\ StoreOnly(distributeElements(Begin, selectedIds, direction))

ImportedElement(id) ==
    [id |-> id, type |-> "rectangle", x |-> 0, y |-> 0, width |-> 20, height |-> 20,
     locked |-> FALSE, groupId |-> NoGroup, createdAt |-> 0, updatedAt |-> 0]

\* the files offered to the import dialog
ImportDocs ==
    LET one == ("e1" :> ImportedElement("e1"))
    IN { [parses |-> FALSE, hasElements |-> FALSE, elements |-> <<>>, elementKeys |-> <<>>,
          hasOrder |-> FALSE, elementOrder |-> <<>>],
         [parses |-> TRUE, hasElements |-> TRUE, elements |-> one, elementKeys |-> <<"e1">>,
          hasOrder |-> TRUE, elementOrder |-> <<"e1">>],
         [parses |-> TRUE, hasElements |-> TRUE, elements |-> one, elementKeys |-> <<"e1">>,
          hasOrder |-> FALSE, elementOrder |-> <<>>],
         [parses |-> TRUE, hasElements |-> FALSE, elements |-> <<>>, elementKeys |-> <<>>,
          hasOrder |-> TRUE, elementOrder |-> <<"e1">>],
         [parses |-> TRUE, hasElements |-> FALSE, elements |-> <<>>, elementKeys |-> <<>>,
          hasOrder |-> FALSE, elementOrder |-> <<>>] }

Import(doc) ==
    StoreOnly([importFromJSON(Begin, doc) EXCEPT !.lastCall = Call("importFromJSON", doc)])

Clear == StoreOnly(clear(Begin))

\* ---------------------------------------------------------------- pointer
FindById(els, id) ==
    LET hits == {i \in 1..Len(els) : els[i].id = id}
    IN IF hits = {} THEN Null ELSE els[CHOOSE i \in hits : \A j \in hits : i <= j]

\* startPositions: a Map from id to {x, y}, in insertion order
RECURSIVE StartPositions(_, _, _)
StartPositions(ids, els, acc) ==
    IF ids = <<>> THEN acc
    ELSE LET el == FindById(els, Head(ids))
         IN StartPositions(Tail(ids), els,
                IF el = Null \/ Includes(Ids(acc), Head(ids)) THEN acc
                ELSE Append(acc, [id |-> el.id, x |-> el.x, y |-> el.y]))

Box(el) == [x |-> el.x, y |-> el.y, width |-> el.width, height |-> el.height]

\* pointer-down with the primary button at screen point p: every branch
\* starts with setDragStart; the button is up before it goes down
Pressed(p) ==
    /\ dragStart = Null
    /\ dragStart' = p
    /\ UNCHANGED now

\* select tool, an element is hit: choose the move-set and start dragging
MouseDownHit(p, shift) ==
    LET canvasPoint == screenToCanvas(p)
        els == selectOrderedElements(St)
        clickedElement == findElementAtPoint(els, canvasPoint)
    IN
    /\ Pressed(p)
    /\ ~seenSpacePressed
    /\ activeTool = "select"
    /\ clickedElement # Null
    /\ LET idsToMove == IF Includes(selectedIds, clickedElement.id) THEN selectedIds
                        ELSE IF shift THEN Append(selectedIds, clickedElement.id)
                        ELSE <<clickedElement.id>>
           starts == StartPositions(idsToMove, els, <<>>)
       IN /\ Apply(IF Includes(selectedIds, clickedElement.id) THEN Begin
                   ELSE setSelection(Begin, idsToMove))
          /\ isDraggingElement' = TRUE
          /\ dragStartCanvas' = canvasPoint
          /\ draggedElementStart' = starts
          /\ gestureStart' = [gestureStart EXCEPT !.boxes =
                 [id \in Range(Ids(starts)) |-> Box(FindById(els, id))]]
    /\ UNCHANGED <<currentElement, selectionBox, isSpacePressed, resizeStart>>
    /\ Render(TRUE)

\* select tool, nothing hit: clear the selection and start the marquee
MouseDownEmpty(p) ==
    LET canvasPoint == screenToCanvas(p)
    IN
    /\ Pressed(p)
    /\ ~seenSpacePressed
    /\ activeTool = "select"
    /\ findElementAtPoint(selectOrderedElements(St), canvasPoint) = Null
    /\ Apply(clearSelection(Begin))
    /\ selectionBox' = [start |-> canvasPoint, end |-> canvasPoint]
    /\ UNCHANGED <<currentElement, isDraggingElement, dragStartCanvas,
                   draggedElementStart, gestureStart, isSpacePressed, resizeStart>>
    /\ Render(TRUE)

\* shape tool: a zero-size draft at the snapped point
\* pointer-down with a shape tool that puts the draft into the store at once
MouseDownShapeAdding(p) ==
    LET snappedPoint == snapToGridPoint(screenToCanvas(p), snapToGrid)
        draft == createBaseElement(Head(FreshIds), "rectangle", snappedPoint.x, snappedPoint.y, now)
    IN
    /\ Pressed(p)
    /\ ~seenSpacePressed
    /\ activeTool = "rectangle"
    /\ Len(FreshIds) >= 1
    /\ Apply(addElement(setDrawing(Begin, TRUE), draft, now))
    /\ currentElement' = draft
    /\ UNCHANGED <<selectionBox, isDraggingElement, dragStartCanvas,
                   draggedElementStart, gestureStart, isSpacePressed, resizeStart>>
    /\ Render(TRUE)

MouseDownShape(p) ==
    LET snappedPoint == snapToGridPoint(screenToCanvas(p), snapToGrid)
    IN
    /\ Pressed(p)
    /\ ~seenSpacePressed
    /\ activeTool = "rectangle"
    /\ Len(FreshIds) >= 1
    /\ Apply(setDrawing(Begin, TRUE))
    /\ currentElement' = createBaseElement(Head(FreshIds), "rectangle",
                                           snappedPoint.x, snappedPoint.y, now)
    /\ UNCHANGED <<selectionBox, isDraggingElement, dragStartCanvas,
                   draggedElementStart, gestureStart, isSpacePressed, resizeStart>>
    /\ Render(TRUE)

\* pointer-down with the line or the arrow tool: a draft of that type
MouseDownLine(p) ==
    LET snappedPoint == snapToGridPoint(screenToCanvas(p), snapToGrid)
    IN
    /\ Pressed(p)
    /\ ~seenSpacePressed
    /\ activeTool \in {"line", "arrow"}
    /\ Len(FreshIds) >= 1
    /\ Apply(setDrawing(Begin, TRUE))
    /\ currentElement' = createBaseElement(Head(FreshIds), activeTool,
                                           snappedPoint.x, snappedPoint.y, now)
    /\ UNCHANGED <<selectionBox, isDraggingElement, dragStartCanvas,
                   draggedElementStart, gestureStart, isSpacePressed, resizeStart>>
    /\ Render(TRUE)

TextWidth == 100
TextHeight == 30

\* text tool: the element is added and selected at once
MouseDownText(p) ==
    LET snappedPoint == snapToGridPoint(screenToCanvas(p), snapToGrid)
    IN
    /\ Pressed(p)
    /\ ~seenSpacePressed
    /\ activeTool = "text"
    /\ Len(FreshIds) >= 1
    /\ LET newElement == [createBaseElement(Head(FreshIds), "text",
                                            snappedPoint.x, snappedPoint.y, now)
                          EXCEPT !.width = TextWidth, !.height = TextHeight]
           s1 == setSelection(addElement(Begin, newElement, now), <<newElement.id>>)
       IN Within(s1) /\ Apply(s1)
    /\ UNCHANGED <<currentElement, selectionBox, isDraggingElement, dragStartCanvas,
                   draggedElementStart, gestureStart, isSpacePressed, resizeStart>>
    /\ Render(TRUE)

StickySize == 200

\* sticky tool: the note is added and selected at once
MouseDownSticky(p) ==
    LET snappedPoint == snapToGridPoint(screenToCanvas(p), snapToGrid)
    IN
    /\ Pressed(p)
    /\ ~seenSpacePressed
    /\ activeTool = "sticky"
    /\ Len(FreshIds) >= 1
    /\ LET newElement == [createBaseElement(Head(FreshIds), "sticky",
                                            snappedPoint.x, snappedPoint.y, now)
                          EXCEPT !.width = StickySize, !.height = StickySize]
           s1 == setSelection(addElement(Begin, newElement, now), <<newElement.id>>)
       IN Within(s1) /\ Apply(s1)
    /\ UNCHANGED <<currentElement, selectionBox, isDraggingElement, dragStartCanvas,
                   draggedElementStart, gestureStart, isSpacePressed, resizeStart>>
    /\ Render(TRUE)

\* the space key is held, as handleMouseDown sees it, or the hand tool is
\* active: start panning
MouseDownPan(p) ==
    /\ Pressed(p)
    /\ seenSpacePressed \/ activeTool = "hand"
    /\ Apply(setPanning(Begin, TRUE))
    /\ UNCHANGED <<currentElement, selectionBox, isDraggingElement, dragStartCanvas,
                   draggedElementStart, gestureStart, isSpacePressed, resizeStart>>
    /\ Render(TRUE)

\* keydown of the space key (not a repeat)
SpaceDown ==
    /\ ~isSpacePressed
    /\ isSpacePressed' = TRUE
    /\ Apply(Begin)
    /\ UNCHANGED <<dragStart, currentElement, selectionBox, isDraggingElement, dragStartCanvas,
                   draggedElementStart, resizeStart, now, gestureStart>>
    /\ Render(FALSE)

\* keyup of the space key
SpaceUp ==
    /\ isSpacePressed
    /\ isSpacePressed' = FALSE
    /\ Apply(setPanning(Begin, FALSE))
    /\ UNCHANGED <<dragStart, currentElement, selectionBox, isDraggingElement, dragStartCanvas,
                   draggedElementStart, resizeStart, now, gestureStart>>
    /\ Render(FALSE)

ResizeHandles == {"nw", "n", "ne", "w", "e", "sw", "s", "se"}
Handles == ResizeHandles \cup {"rotation"}

\* a press, with any button, on a handle of the selection overlay; the
\* handles are there when exactly one element is selected and it is not locked
ResizeHandleDown(handle) ==
    LET selectedElements == Found(St, selectedIds)
    IN
    /\ Len(selectedElements) = 1
    /\ ~selectedElements[1].locked
    /\ StoreOnly(setResizing(Begin, TRUE, handle))

\* Ctrl+G
ToggleGrid == StoreOnly(toggleGrid(Begin))

\* the characters of a handle's name
HandleLetters(handle) ==
    CASE handle = "nw" -> <<"n", "w">>
      [] handle = "n" -> <<"n">>
      [] handle = "ne" -> <<"n", "e">>
      [] handle = "w" -> <<"w">>
      [] handle = "e" -> <<"e">>
      [] handle = "sw" -> <<"s", "w">>
      [] handle = "s" -> <<"s">>
      [] handle = "se" -> <<"s", "e">>
      [] handle = "rotation" -> <<"r", "o", "t", "a", "t", "i", "o", "n">>

\* String.prototype.includes for a one-letter needle
HandleIncludes(handle, c) == Includes(HandleLetters(handle), c)

MinSize == 20

\* the box after the switch over the handle
Stretched(el, handle, dx, dy) ==
    CASE handle = "nw" -> [x |-> el.x + dx, y |-> el.y + dy,
                           width |-> el.width - dx, height |-> el.height - dy]
      [] handle = "n" -> [x |-> el.x, y |-> el.y + dy,
                          width |-> el.width, height |-> el.height - dy]
      [] handle = "ne" -> [x |-> el.x, y |-> el.y + dy,
                           width |-> el.width + dx, height |-> el.height - dy]
      [] handle = "w" -> [x |-> el.x + dx, y |-> el.y,
                          width |-> el.width - dx, height |-> el.height]
      [] handle = "e" -> [x |-> el.x, y |-> el.y,
                          width |-> el.width + dx, height |-> el.height]
      [] handle = "sw" -> [x |-> el.x + dx, y |-> el.y,
                           width |-> el.width - dx, height |-> el.height + dy]
      [] handle = "s" -> [x |-> el.x, y |-> el.y,
                          width |-> el.width, height |-> el.height + dy]
      [] handle = "se" -> [x |-> el.x, y |-> el.y,
                           width |-> el.width + dx, height |-> el.height + dy]
      [] OTHER -> [x |-> el.x, y |-> el.y, width |-> el.width, height |-> el.height]

\* the minimum size, with the west or north edge moved to keep the other
Clamped(el, handle, b) ==
    LET narrow == b.width < MinSize
        low == b.height < MinSize
    IN [x |-> IF narrow /\ HandleIncludes(handle, "w") THEN el.x + el.width - MinSize ELSE b.x,
        y |-> IF low /\ HandleIncludes(handle, "n") THEN el.y + el.height - MinSize ELSE b.y,
        width |-> IF narrow THEN MinSize ELSE b.width,
        height |-> IF low THEN MinSize ELSE b.height]

Snapped(b, snap) ==
    [x |-> Snap(b.x, snap), y |-> Snap(b.y, snap),
     width |-> Snap(b.width, snap), height |-> Snap(b.height, snap)]

\* the box one pointer-move sample of a resize writes
ResizeBox(el, handle, dx, dy, snap) == Snapped(Clamped(el, handle, Stretched(el, handle, dx, dy)), snap)

RECURSIVE DragAll(_, _, _, _, _)
DragAll(s, starts, dx, dy, t) ==
    IF starts = <<>> THEN s
    ELSE LET st == Head(starts)
         IN DragAll(updateElementSilent(s, st.id,
                        [x |-> Snap(st.x + dx, s.snapToGrid), y |-> Snap(st.y + dy, s.snapToGrid)], t),
                    Tail(starts), dx, dy, t)

\* pointer-move to screen point p
MouseMove(p) ==
    LET canvasPoint == screenToCanvas(p)
    IN
    /\ UNCHANGED <<now, gestureStart, isDraggingElement, dragStartCanvas, draggedElementStart,
                   isSpacePressed>>
    /\ IF isPanning /\ dragStart # Null
       THEN /\ LET s1 == setTransform(Begin, [x |-> transform.x + (p.x - dragStart.x),
                                              y |-> transform.y + (p.y - dragStart.y)])
               IN Within(s1) /\ Apply(s1)
            /\ dragStart' = p
            /\ UNCHANGED <<selectionBox, currentElement, resizeStart>>
            /\ Render(TRUE)
       ELSE IF selectionBox # Null
       THEN /\ selectionBox' = [selectionBox EXCEPT !.end = canvasPoint]
            /\ Apply(Begin)
            /\ UNCHANGED <<dragStart, currentElement, resizeStart>>
            /\ Render(TRUE)
       ELSE IF isDraggingElement /\ dragStartCanvas # Null /\ Len(draggedElementStart) > 0
       THEN /\ Apply(DragAll(Begin, draggedElementStart,
                             canvasPoint.x - dragStartCanvas.x,
                             canvasPoint.y - dragStartCanvas.y, now))
            /\ UNCHANGED <<dragStart, selectionBox, currentElement, resizeStart>>
            /\ Render(FALSE)
       ELSE IF isResizing /\ resizeHandle # NoHandle /\ Len(selectedIds) = 1
       THEN /\ IF seenResizeStart = Null
               THEN LET el == FindById(selectOrderedElements(St), selectedIds[1])
                    IN /\ resizeStart' = IF el # Null THEN [element |-> el, point |-> canvasPoint]
                                         ELSE resizeStart
                       /\ Apply(Begin)
               ELSE /\ Apply(updateElementSilent(Begin, selectedIds[1],
                                 ResizeBox(seenResizeStart.element, resizeHandle,
                                           canvasPoint.x - seenResizeStart.point.x,
                                           canvasPoint.y - seenResizeStart.point.y,
                                           snapToGrid), now))
                    /\ UNCHANGED resizeStart
            /\ UNCHANGED <<dragStart, selectionBox, currentElement>>
            /\ Render(FALSE)
       ELSE IF isDrawing /\ currentElement # Null /\ dragStart # Null
       THEN /\ LET snappedPoint == snapToGridPoint(canvasPoint, snapToGrid)
                   startPoint == snapToGridPoint(screenToCanvas(dragStart), snapToGrid)
                   width == Abs(snappedPoint.x - startPoint.x)
                   height == Abs(snappedPoint.y - startPoint.y)
                   \* the box of a line or an arrow is at least 1 by 1
                   isLine == currentElement.type \in {"line", "arrow"}
               IN currentElement' = [currentElement EXCEPT
                      !.x = Min2(snappedPoint.x, startPoint.x),
                      !.y = Min2(snappedPoint.y, startPoint.y),
                      !.width = IF isLine THEN Max2(width, 1) ELSE width,
                      !.height = IF isLine THEN Max2(height, 1) ELSE height]
            /\ Apply(Begin)
            /\ UNCHANGED <<dragStart, selectionBox, resizeStart>>
            /\ Render(TRUE)
       ELSE /\ activeTool = "select"
            /\ ~isDrawing
            /\ ~isPanning
            /\ LET hoveredElement == findElementAtPoint(selectOrderedElements(St), canvasPoint)
               IN Apply(setHovered(Begin, IF hoveredElement = Null THEN NoId ELSE hoveredElement.id))
            /\ UNCHANGED <<dragStart, selectionBox, currentElement, resizeStart>>
            /\ Render(FALSE)

\* every element of the drag snapshot is taken as moved
PositionTakenAsChanged(el, startPos) == TRUE

\* the test of handleMouseUp that an element has left its pointer-down position
PositionChanged(el, startPos) == el.x # startPos.x \/ el.y # startPos.y

\* the forEach of handleMouseUp over the drag snapshot: one updateElement per
\* element that moved; g records, per entry pushed, the element's box at
\* pointer-down
RECURSIVE CommitDrag(_, _, _, _)
CommitDrag(sg, starts, els, t) ==
    IF starts = <<>> THEN sg
    ELSE LET st == Head(starts)
             el == FindById(els, st.id)
             moved == el # Null /\ PositionChanged(el, st)
             pushes == moved /\ Live(sg.s, st.id)
         IN CommitDrag(
              IF moved
              THEN [s |-> updateElement(sg.s, st.id, [x |-> el.x, y |-> el.y], t),
                    g |-> IF pushes /\ st.id \in DOMAIN gestureStart.boxes
                          THEN PutKey(sg.g, sg.s.nextEntryId,
                                      [id |-> st.id, box |-> gestureStart.boxes[st.id]])
                          ELSE sg.g]
              ELSE sg,
              Tail(starts), els, t)

\* a draft larger than the threshold in one direction only is kept
BigEnoughEitherWay(el) == el.width > MinDraftSize \/ el.height > MinDraftSize

\* the size test of a draft at pointer-up
BigEnough(el) == el.width > MinDraftSize /\ el.height > MinDraftSize

\* the effect that watches the resize flag, run after handleMouseUp has ended
\* a resize: the selected element's box is written with a history entry
ResizeEnd(s, t) ==
    IF ~s.isResizing /\ resizeStart # Null
    THEN LET el == IF Len(s.selectedIds) > 0
                   THEN FindById(selectOrderedElements(s), s.selectedIds[1]) ELSE Null
         IN IF el # Null THEN updateElement(s, s.selectedIds[1], Box(el), t) ELSE s
    ELSE s

\* pointer-up, or the pointer leaving the canvas
MouseUp ==
    LET els == selectOrderedElements(St)
        p0 == IF isPanning THEN setPanning(Begin, FALSE) ELSE Begin
        r0 == IF isResizing THEN setResizing(p0, FALSE, NoHandle) ELSE p0
        dragging == isDraggingElement /\ Len(draggedElementStart) > 0
        a == IF dragging
             THEN CommitDrag([s |-> r0, g |-> gestureStart.entries], draggedElementStart, els, now)
             ELSE [s |-> r0, g |-> gestureStart.entries]
        b == IF selectionBox # Null
             THEN setSelection(a.s, Ids(findElementsInBox(els, selectionBox.start, selectionBox.end)))
             ELSE a.s
        drawing == isDrawing /\ currentElement # Null
        commit == drawing /\ BigEnough(currentElement)
        c == IF commit
             THEN setTool(setSelection(addElement(b, currentElement, now), <<currentElement.id>>), "select")
             ELSE b
        d == IF drawing THEN setDrawing(c, FALSE) ELSE c
        e == ResizeEnd(d, now)
        ended == ~d.isResizing /\ resizeStart # Null
    IN
    /\ Within(e)
    /\ Apply(e)
    /\ isDraggingElement' = IF dragging THEN FALSE ELSE isDraggingElement
    /\ dragStartCanvas' = IF dragging THEN Null ELSE dragStartCanvas
    /\ draggedElementStart' = IF dragging THEN <<>> ELSE draggedElementStart
    /\ selectionBox' = Null
    /\ currentElement' = IF drawing THEN Null ELSE currentElement
    /\ dragStart' = Null
    /\ resizeStart' = IF ended THEN Null ELSE resizeStart
    /\ gestureStart' = [boxes |-> IF dragging THEN <<>> ELSE gestureStart.boxes, entries |-> a.g]
    /\ UNCHANGED <<now, isSpacePressed>>
    /\ seenSpacePressed' = IF StoreFields(e) # StoreFields(Begin) THEN isSpacePressed
                           ELSE seenSpacePressed
    \* handleMouseMove is made anew with the values of the render it belongs
    \* to: the one after the handler, or the one after the effect's update
    /\ seenResizeStart' =
          IF StoreFields(e) # StoreFields(d) THEN resizeStart'
          ELSE IF \/ StoreFields(d) # StoreFields(Begin)
                  \/ dragStart # Null \/ selectionBox # Null \/ drawing
               THEN resizeStart
               ELSE seenResizeStart

\* placing text elements, select-all, the lock toggle, delete, undo and redo
Next ==
    \/ Tick
    \/ SetTool("text")
    \/ SetTool("select")
    \/ MouseDownText([x |-> 0, y |-> 0])
    \/ MouseUp
    \/ SelectAll
    \/ DeleteSelected
    \/ ToggleLock
    \/ Undo
    \/ Redo

Spec == Init /\ [][Next]_vars

\* the pointer gestures of the Canvas with undo and redo
NextGesture ==
    \/ \E tool \in Tools : SetTool(tool)
    \/ Escape
    \/ \E p \in PointerPoints, shift \in BOOLEAN : MouseDownHit(p, shift)
    \/ \E p \in PointerPoints : MouseDownEmpty(p)
    \/ \E p \in PointerPoints : MouseDownShape(p)
    \/ \E p \in PointerPoints : MouseDownText(p)
    \/ \E p \in PointerPoints : MouseMove(p)
    \/ MouseUp
    \/ ToggleLock
    \/ Undo
    \/ Redo

SpecGesture == Init /\ [][NextGesture]_vars

\* z-order, delete, import and clear from the keyboard and the menus, on
\* elements placed with the text tool or imported
NextOrder ==
    \/ SetTool("text")
    \/ SetTool("select")
    \/ MouseDownText([x |-> 0, y |-> 0])
    \/ MouseUp
    \/ Undo
    \/ Redo
    \/ DeleteSelected
    \/ SelectAll
    \/ BringToFront
    \/ SendToBack
    \/ BringForward
    \/ SendBackward
    \/ \E doc \in ImportDocs : Import(doc)
    \/ Clear

SpecOrder == Init /\ [][NextOrder]_vars

\* a file with three rectangles in a row, unevenly spaced
LayoutDoc ==
    LET el(id, x, y) == [ImportedElement(id) EXCEPT !.x = x, !.y = y]
    IN [parses |-> TRUE, hasElements |-> TRUE,
        elements |-> ("a" :> el("a", 0, 0)) @@ ("b" :> el("b", 20, 20)) @@ ("c" :> el("c", 60, 60)),
        elementKeys |-> <<"a", "b", "c">>,
        hasOrder |-> TRUE, elementOrder |-> <<"a", "b", "c">>]

\* a file holding one rectangle
SingleDoc ==
    [parses |-> TRUE, hasElements |-> TRUE, elements |-> ("e1" :> ImportedElement("e1")),
     elementKeys |-> <<"e1">>, hasOrder |-> TRUE, elementOrder |-> <<"e1">>]

\* clipboard, grouping, alignment and distribution on imported documents
NextLayout ==
    \/ \E doc \in {SingleDoc, LayoutDoc} : Import(doc)
    \/ SelectAll
    \/ Copy
    \/ Paste
    \/ Group
    \/ Ungroup
    \/ \E alignment \in {"left", "top"} : Align(alignment)
    \/ Distribute("horizontal")

SpecLayout == Init /\ [][NextLayout]_vars

\* a long session: a text element placed at time 0 (entry 1, an add) and
\* its lock toggled from the context menu (entries 2, 3, ..., updates) until
\* the stack is one entry short of the limit; the entries made so far are
\* numbered up to 0
LongSession ==
    LET n == MaxHistory - 1
        el == [createBaseElement("e1", "text", 0, 0, 0)
               EXCEPT !.width = TextWidth, !.height = TextHeight]
        at(i) == [el EXCEPT !.locked = (i % 2 = 0)]
        entry(i) == IF i = 1 THEN Entry("add", <<"e1">>, ("e1" :> Null), ("e1" :> el))
                    ELSE Entry("update", <<"e1">>, ("e1" :> at(i - 1)), ("e1" :> at(i)))
    IN [initialState EXCEPT
            !.elements = ("e1" :> at(n)),
            !.elementKeys = <<"e1">>,
            !.elementOrder = <<"e1">>,
            !.selectedIds = <<"e1">>,
            !.history = [i \in 1..n |-> [entry(i) EXCEPT !.id = i - n]],
            !.historyIndex = n - 1]

InitFull == Start(LongSession)

\* the lock toggle, delete, undo and redo at the history limit
NextFull ==
    \/ DeleteSelected
    \/ ToggleLock
    \/ Undo
    \/ Redo

SpecFull == InitFull /\ [][NextFull]_vars

\* a file whose elementOrder names its one rectangle twice
DupDoc ==
    [parses |-> TRUE, hasElements |-> TRUE, elements |-> ("e1" :> ImportedElement("e1")),
     elementKeys |-> <<"e1">>, hasOrder |-> TRUE, elementOrder |-> <<"e1", "e1">>]

ImportFiles == ImportDocs \cup {DupDoc}

\* import into a document edited with the text tool, select-all, delete,
\* undo and redo
NextImport ==
    \/ SetTool("text")
    \/ SetTool("select")
    \/ MouseDownText([x |-> 0, y |-> 0])
    \/ MouseUp
    \/ SelectAll
    \/ DeleteSelected
    \/ Undo
    \/ Redo
    \/ \E doc \in ImportFiles : Import(doc)

SpecImport == Init /\ [][NextImport]_vars

\* -------------------------------------------- the store called directly
\* the update fields callers pass
ElementUpdates == {[x |-> GridSize], [locked |-> TRUE]}

\* argument lists of at most two different ids, live or not
IdLists ==
    {<<>>} \cup {<<a>> : a \in Pool} \cup ({<<a, b>> : a, b \in Pool} \ {<<a, a>> : a \in Pool})

UpdateElement(id, updates) ==
    StoreOnly([updateElement(Begin, id, updates, now)
                   EXCEPT !.lastCall = Call("updateElement", <<id, updates>>)])

UpdateElementSilent(id, updates) ==
    StoreOnly([updateElementSilent(Begin, id, updates, now)
                   EXCEPT !.lastCall = Call("updateElementSilent", <<id, updates>>)])

GroupIds(ids) ==
    \E g \in FreshGroups :
        StoreOnly([group(Begin, ids, g) EXCEPT !.lastCall = Call("group", ids)])

\* updates and grouping of live and absent ids on an imported rectangle
NextStore ==
    \/ Import(SingleDoc)
    \/ \E id \in Pool : \E updates \in ElementUpdates : UpdateElement(id, updates)
    \/ \E id \in Pool : \E updates \in ElementUpdates : UpdateElementSilent(id, updates)
    \/ \E ids \in IdLists \ {<<>>} : GroupIds(ids)

SpecStore == Init /\ [][NextStore]_vars

\* recorded and silent updates of an imported rectangle, with undo and redo
NextSilent ==
    \/ Tick
    \/ Import(SingleDoc)
    \/ \E updates \in ElementUpdates : UpdateElement("e1", updates)
    \/ \E updates \in ElementUpdates : UpdateElementSilent("e1", updates)
    \/ Undo
    \/ Redo

SpecSilent == Init /\ [][NextSilent]_vars

SetSelection(ids) == StoreOnly(setSelection(Begin, ids))

AddToSelection(id) == StoreOnly(addToSelection(Begin, id))

RemoveFromSelection(id) == StoreOnly(removeFromSelection(Begin, id))

ClearSelection == StoreOnly(clearSelection(Begin))

SetHovered(id) == StoreOnly(setHovered(Begin, id))

\* selection, hover, stacking order and duplication of live elements beside
\* a history of one entry that is undone at times
NextSelection ==
    \/ Import(SingleDoc)
    \/ (history = <<>> /\ UpdateElement("e1", [locked |-> TRUE]))
    \/ Undo
    \/ \E ids \in IdLists : Range(ids) \subseteq DOMAIN elements /\ SetSelection(ids)
    \/ \E id \in DOMAIN elements : AddToSelection(id)
    \/ \E id \in DOMAIN elements : RemoveFromSelection(id)
    \/ ClearSelection
    \/ SelectAll
    \/ \E id \in {"e1", NoId} : SetHovered(id)
    \/ BringToFront
    \/ SendToBack
    \/ BringForward
    \/ SendBackward
    \/ Duplicate

SpecSelection == Init /\ [][NextSelection]_vars

\* stacking order of an imported three-element document, with elements picked
\* by click and shift-click
NextStack ==
    \/ Import(LayoutDoc)
    \/ \E p \in {[x |-> 0, y |-> 0], [x |-> 20, y |-> 20]} : \E shift \in BOOLEAN : MouseDownHit(p, shift)
    \/ MouseUp
    \/ SelectAll
    \/ BringToFront
    \/ SendToBack
    \/ BringForward
    \/ SendBackward

SpecStack == Init /\ [][NextStack]_vars

\* ============================================================ properties
\* C1: after any sequence of store operations elementOrder holds no id twice
\* and holds exactly the keys of the elements map
OrderIsPermutation ==
    /\ Cardinality(Range(elementOrder)) = Len(elementOrder)
    /\ Range(elementOrder) = DOMAIN elements

\* C2: every selected id is a key of the elements map
SelectionIsLive == Range(selectedIds) \subseteq DOMAIN elements

\* the status of an id in a store state: absent, or its element field for field
Status(s, id) == IF Live(s, id) THEN s.elements[id] ELSE Null

\* the single non-silent mutations that can be applied to the current state,
\* each with the state it leads to and the ids it affects
Mutations ==
    {[m |-> addElement(St, [createBaseElement(id, "rectangle", p.x, p.y, now)
                               EXCEPT !.width = GridSize, !.height = GridSize], now),
      ids |-> <<id>>] : id \in Pool \ UsedIds, p \in PointerPoints}
    \cup {[m |-> updateElement(St, id, [locked |-> b], t), ids |-> <<id>>] :
             id \in DOMAIN elements, b \in BOOLEAN, t \in {now, now + 1}}
    \cup {[m |-> updateElement(St, id, [x |-> p.x, y |-> p.y], t), ids |-> <<id>>] :
             id \in DOMAIN elements, p \in PointerPoints, t \in {now, now + 1}}
    \cup {[m |-> deleteElements(St, ids, now), ids |-> ids] :
             ids \in {selectedIds} \cup {<<id>> : id \in DOMAIN elements}}

\* C3: undo after a single non-silent mutation returns every affected id to
\* its status before the mutation (absent, or every field equal), redo after
\* that undo returns it to its status right after the mutation; on an empty
\* document with nothing to undo, add then undo leaves elements and
\* elementOrder empty and canUndo false
UndoRedoRoundTrip ==
    \A c \in Mutations :
        LET u == undo(c.m)
            r == redo(u)
        IN /\ \A id \in Range(c.ids) : /\ Status(u, id) = Status(St, id)
                                       /\ Status(r, id) = Status(c.m, id)
           /\ (elements = <<>> /\ elementOrder = <<>> /\ ~canUndo(St) /\ c.m.elements # <<>>)
                  => (u.elements = <<>> /\ u.elementOrder = <<>> /\ ~canUndo(u))

\* an element was added, changed and the change undone: the entry above the
\* cursor is the update, and the element is back at the update's before-state
RoundTripWitness ==
    /\ canRedo(St)
    /\ history[historyIndex + 2].type = "update"
    /\ \A id \in Range(history[historyIndex + 2].elementIds) :
           Status(St, id) = history[historyIndex + 2].before[id]

\* a step of undo: the cursor moves down by one over an unchanged stack
UndoStep == canUndo(St) /\ history' = history /\ historyIndex' = historyIndex - 1

\* C4: undoing the entry that a completed drag committed for an element puts
\* the element's x, y, width and height back to their values at pointer-down
GestureUndoRestoresStart ==
    [][(UndoStep /\ history[historyIndex + 1].id \in DOMAIN gestureStart.entries)
          => LET g == gestureStart.entries[history[historyIndex + 1].id]
             IN g.id \in DOMAIN elements' /\ Box(elements'[g.id]) = g.box]_vars

\* a step of redo: the cursor moves up by one over an unchanged stack
RedoStep == canRedo(St) /\ history' = history /\ historyIndex' = historyIndex + 1

\* a step in which a non-silent mutation pushed history entries
PushStep == nextEntryId' > nextEntryId

\* C5: a non-silent mutation removes every entry above the cursor before it
\* appends its own, so that nothing can be redone right after it, and an
\* entry that has left the stack is never redone
HistoryTruncation ==
    [][/\ PushStep =>
            LET kept == SubSeq(history, 1, historyIndex + 1)
                discarded == SubSeq(history, historyIndex + 2, Len(history))
            IN /\ ~canRedo([history |-> history', historyIndex |-> historyIndex'])
               /\ EntryNumbers(discarded) \subseteq removed'
               /\ EntryNumbers(discarded) \cap EntryNumbers(history') = {}
               /\ \A i \in 1..Len(history') :
                      history'[i] \in Range(kept) \/ history'[i].id >= nextEntryId
       /\ RedoStep => history[historyIndex + 2].id \notin removed
      ]_vars

\* a mutation after an undo has discarded the undone entry
TruncationWitness ==
    /\ removed # {}
    /\ canUndo(St)
    /\ ~canRedo(St)
    /\ history[historyIndex + 1].id > Len(history)

\* C6: the stack never holds more than 100 entries; a push onto a full stack
\* with the cursor at the top drops the oldest entry and leaves 100 entries
\* with the cursor at 99 on the new entry; undo never applies an entry that
\* has left the stack
BoundedHistory ==
    /\ Len(history) <= MaxHistory
    /\ [][/\ Len(history') <= MaxHistory
          /\ (nextEntryId' = nextEntryId + 1 /\ Len(history) = MaxHistory
                  /\ historyIndex = MaxHistory - 1)
                 => /\ Len(history') = MaxHistory
                    /\ historyIndex' = MaxHistory - 1
                    /\ history'[MaxHistory].id = nextEntryId
                    /\ SubSeq(history', 1, MaxHistory - 1) = Tail(history)
                    /\ history[1].id \in removed'
          /\ UndoStep => history[historyIndex + 1].id \notin removed
         ]_vars

\* the oldest entry, the add, has been dropped from a full stack
DroppedOldestWitness ==
    /\ Len(history) = MaxHistory
    /\ historyIndex = MaxHistory - 1
    /\ history[1].type = "update"
    /\ removed # {}

\* C7: no step of a drag gesture (the pointer-moves and the pointer-up while
\* elements are being dragged) changes the x, y, width or height of a locked
\* element
LockedNeverMoved ==
    [][(isDraggingElement /\ ~UndoStep /\ ~RedoStep)
          => \A id \in DOMAIN elements :
                 (elements[id].locked /\ id \in DOMAIN elements')
                     => Box(elements'[id]) = Box(elements[id])]_vars

\* C8: no state published by a handler has the document changed while the
\* history is as it was in the state published before it
NoIntermediateState ==
    \A i \in 1..Len(setLog) : setLog[i].doc => setLog[i].hist

\* the store state m follows from the current one by exactly one entry pushed
\* on the entries up to the cursor
AppendsOne(m, type, ids) ==
    LET kept == SubSeq(history, 1, historyIndex + 1)
    IN /\ Len(kept) < MaxHistory
       /\ m.history = Append(kept, m.history[Len(m.history)])
       /\ m.historyIndex = Len(kept)
       /\ m.history[Len(m.history)].type = type
       /\ m.history[Len(m.history)].elementIds = ids
       /\ m.history[Len(m.history)].id \notin EntryNumbers(history)

\* C9: addElement, updateElement on an existing id and deleteElements each
\* append exactly one entry: an add with before null and after the element,
\* the id going to the end of elementOrder; an update with the full element
\* before and after the merge; a delete with after null for every given id
OneEntryPerMutation ==
    /\ \A id \in Pool \ UsedIds, p \in PointerPoints :
           LET el == [createBaseElement(id, "rectangle", p.x, p.y, now)
                      EXCEPT !.width = GridSize, !.height = GridSize]
               m == addElement(St, el, now)
               top == m.history[Len(m.history)]
           IN /\ AppendsOne(m, "add", <<id>>)
              /\ top.before = (id :> Null)
              /\ top.after = (id :> el)
              /\ m.elements = PutKey(elements, id, el)
              /\ m.elementOrder = Append(elementOrder, id)
    /\ \A id \in DOMAIN elements, b \in BOOLEAN, p \in PointerPoints, t \in {now, now + 1} :
           LET m == updateElement(St, id, [locked |-> b, x |-> p.x], t)
               top == m.history[Len(m.history)]
               merged == [elements[id] EXCEPT !.locked = b, !.x = p.x, !.updatedAt = t]
           IN /\ AppendsOne(m, "update", <<id>>)
              /\ top.before = (id :> elements[id])
              /\ top.after = (id :> merged)
              /\ m.elements = [elements EXCEPT ![id] = merged]
    /\ \A ids \in {selectedIds} \cup {<<id>> : id \in DOMAIN elements} :
           LET m == deleteElements(St, ids, now)
               top == m.history[Len(m.history)]
           IN /\ AppendsOne(m, "delete", ids)
              /\ DOMAIN top.after = Range(ids)
              /\ \A id \in Range(ids) : top.after[id] = Null /\ ~Live(m, id)

\* an element was added, its lock toggled and the selection deleted: the
\* stack holds the add and, on top, an update or a delete
OneEntryWitness ==
    /\ Len(history) = 2
    /\ historyIndex = 1
    /\ history[1].type = "add"
    /\ history[2].type \in {"update", "delete"}

\* a step of paste, group, ungroup, alignElements or distributeElements
LayoutStep ==
    \/ Paste
    \/ Group
    \/ Ungroup
    \/ \E alignment \in Alignments : Align(alignment)
    \/ \E direction \in {"horizontal", "vertical"} : Distribute(direction)

\* C10: paste with a non-empty clipboard, group, ungroup, alignElements on two
\* or more elements and distributeElements on three or more each add one
\* undoable step: one entry on the stack, the cursor on it
LayoutStepUndoable ==
    [][LayoutStep => /\ historyIndex' = historyIndex + 1
                     /\ Len(history') = historyIndex' + 1]_vars

\* the import of a file does not throw: the text parses and the parsed
\* object carries elements or elementOrder
Succeeds(doc) == doc.parses /\ (doc.hasElements \/ doc.hasOrder)

\* C11: a successful importFromJSON replaces elements and elementOrder with
\* the imported ones, empties selectedIds and resets the history, so that
\* canUndo and canRedo are false and no entry made before the import is left
ImportResetsHistory ==
    [][\A doc \in ImportFiles :
          (Succeeds(doc) /\ Import(doc))
              => /\ elements' = IF doc.hasElements THEN doc.elements ELSE <<>>
                 /\ elementOrder' = IF doc.hasOrder THEN doc.elementOrder ELSE doc.elementKeys
                 /\ selectedIds' = <<>>
                 /\ history' = <<>>
                 /\ historyIndex' = -1
                 /\ ~canUndo([historyIndex |-> historyIndex'])
                 /\ ~canRedo([history |-> history', historyIndex |-> historyIndex'])
                 /\ EntryNumbers(history) \subseteq removed']_vars

\* a document with history was replaced by an imported one
ImportWitness ==
    /\ removed # {}
    /\ history = <<>>
    /\ historyIndex = -1
    /\ selectedIds = <<>>
    /\ DOMAIN elements = {"e1"}
    /\ elements["e1"].type = "rectangle"

\* an object with an elements map and an elementOrder list of exactly that
\* map's keys
WellShaped(doc) ==
    /\ doc.parses /\ doc.hasElements /\ doc.hasOrder
    /\ Cardinality(Range(doc.elementOrder)) = Len(doc.elementOrder)
    /\ Range(doc.elementOrder) = DOMAIN doc.elements

\* C12: importFromJSON with text that does not parse, or that parses to a
\* value of the wrong shape, leaves elements, elementOrder, selectedIds,
\* history and historyIndex as they were
MalformedImportNoEffect ==
    [][\A doc \in ImportFiles :
          (~WellShaped(doc) /\ Import(doc))
              => UNCHANGED <<elements, elementOrder, selectedIds, history, historyIndex>>]_vars

\* C13: an import without elementOrder takes the key order of the elements
\* map; an import without an elements map succeeds with elements empty,
\* whether or not elementOrder is present
ImportToleratesAbsentFields ==
    [][\A doc \in ImportFiles :
          (doc.parses /\ Import(doc))
              => /\ (doc.hasElements /\ ~doc.hasOrder)
                        => (elements' = doc.elements /\ elementOrder' = doc.elementKeys)
                 /\ ~doc.hasElements
                        => /\ elements' = <<>>
                           /\ elementOrder' = IF doc.hasOrder THEN doc.elementOrder ELSE <<>>
                           /\ selectedIds' = <<>>
                           /\ history' = <<>>
                           /\ historyIndex' = -1]_vars

\* the store holds a duplicate-free elementOrder of exactly the keys of
\* elements, and the given ids are distinct keys of elements
GivenLive(ids) ==
    /\ Cardinality(Range(elementOrder)) = Len(elementOrder)
    /\ Range(elementOrder) = DOMAIN elements
    /\ Cardinality(Range(ids)) = Len(ids)
    /\ Range(ids) \subseteq DOMAIN elements

\* C14: bringToFront(ids) moves the given ids to the end of elementOrder and
\* sendToBack(ids) moves them to the start; the given ids keep the relative
\* order they had in elementOrder, and so do all other ids, whatever the order
\* of the argument
FrontBackKeepRelativeOrder ==
    [][GivenLive(selectedIds) =>
          /\ BringToFront
                => elementOrder' = Filter(elementOrder, Range(elementOrder) \ Range(selectedIds))
                                   \o Filter(elementOrder, Range(selectedIds))
          /\ SendToBack
                => elementOrder' = Filter(elementOrder, Range(selectedIds))
                                   \o Filter(elementOrder, Range(elementOrder) \ Range(selectedIds))]_vars

\* 0-based positions of the last and the first entry of elementOrder
LastIndex == Len(elementOrder) - 1

\* the given ids can all take the step forward the claim describes: the last
\* entry and the entry below it are not both given
CanStepForward(ids) ==
    ~(Len(elementOrder) >= 2 /\ elementOrder[Len(elementOrder)] \in Range(ids)
                             /\ elementOrder[Len(elementOrder) - 1] \in Range(ids))

\* likewise toward the start: the first two entries are not both given
CanStepBackward(ids) ==
    ~(Len(elementOrder) >= 2 /\ elementOrder[1] \in Range(ids) /\ elementOrder[2] \in Range(ids))

\* C15: after bringForward(ids) every given id that was not the last entry of
\* elementOrder is exactly one position closer to the end and a given id that
\* was last stays; sendBackward(ids) symmetrically toward the start;
\* elementOrder remains a permutation of the same ids
ForwardBackwardOneStep ==
    [][GivenLive(selectedIds) =>
          /\ (BringForward /\ CanStepForward(selectedIds))
                => /\ \A id \in Range(selectedIds) :
                          IndexOf(elementOrder', id) =
                              IF IndexOf(elementOrder, id) < LastIndex
                              THEN IndexOf(elementOrder, id) + 1 ELSE IndexOf(elementOrder, id)
                   /\ Len(elementOrder') = Len(elementOrder)
                   /\ Range(elementOrder') = Range(elementOrder)
          /\ (SendBackward /\ CanStepBackward(selectedIds))
                => /\ \A id \in Range(selectedIds) :
                          IndexOf(elementOrder', id) =
                              IF IndexOf(elementOrder, id) > 0
                              THEN IndexOf(elementOrder, id) - 1 ELSE IndexOf(elementOrder, id)
                   /\ Len(elementOrder') = Len(elementOrder)
                   /\ Range(elementOrder') = Range(elementOrder)]_vars

\* C16: updateElement and updateElementSilent called with an id that is not a
\* key of elements change nothing in elements, elementOrder, selectedIds,
\* history and historyIndex; group called with such an id creates nothing for
\* it, leaves every element it was not given as it was and leaves
\* elementOrder, selectedIds, history and historyIndex alone
AbsentIdIsNoOp ==
    [][/\ \A id \in Pool \ DOMAIN elements : \A updates \in ElementUpdates :
              (UpdateElement(id, updates) \/ UpdateElementSilent(id, updates))
                  => UNCHANGED <<elements, elementOrder, selectedIds, history, historyIndex>>
       /\ \A ids \in IdLists :
              (Range(ids) \ DOMAIN elements # {} /\ GroupIds(ids))
                  => /\ DOMAIN elements' = DOMAIN elements
                     /\ \A id \in DOMAIN elements \ Range(ids) : elements'[id] = elements[id]
                     /\ UNCHANGED <<elementOrder, selectedIds, history, historyIndex>>]_vars

\* group was called with a live and an absent id while the stack held an entry
AbsentIdWitness ==
    /\ lastCall.op = "group"
    /\ \E id \in Range(lastCall.args) : id \notin DOMAIN elements
    /\ \E id \in Range(lastCall.args) : id \in DOMAIN elements /\ elements[id].groupId # NoGroup
    /\ history # <<>>

\* the given ids that are neither keys of elements nor entries of elementOrder
Stale(ids) == Range(ids) \ (DOMAIN elements \cup Range(elementOrder))

\* C17: bringToFront, sendToBack, bringForward and sendBackward called with an
\* id that is not a live element insert no such id into elementOrder and
\* displace or overwrite no entry: elementOrder keeps its length and its
\* entries, and stays as it was when none of the given ids is live
StaleIdsLeaveOrderAlone ==
    [][(/\ Stale(selectedIds) # {}
        /\ BringToFront \/ SendToBack \/ BringForward \/ SendBackward)
           => /\ Stale(selectedIds) \cap Range(elementOrder') = {}
              /\ Len(elementOrder') = Len(elementOrder)
              /\ Range(elementOrder') = Range(elementOrder)
              /\ Stale(selectedIds) = Range(selectedIds) => elementOrder' = elementOrder]_vars

\* the entry at the cursor after the step
TopEntry == history'[historyIndex' + 1]

\* the entry an undo step takes back
UndoneEntry == history[historyIndex + 1]

\* C18: deleteElements(ids) removes every given id from elements, elementOrder
\* and selectedIds and leaves all other ids present and in their relative
\* order; it records one delete entry in which an id that was not present has
\* before[id] = null, and undoing that entry creates and removes nothing for
\* such an id
DeleteRemovesGivenIds ==
    [][/\ DeleteSelected
           => /\ DOMAIN elements' = DOMAIN elements \ Range(selectedIds)
              /\ \A id \in DOMAIN elements' : elements'[id] = elements[id]
              /\ elementOrder' = Filter(elementOrder, Range(elementOrder) \ Range(selectedIds))
              /\ selectedIds' = <<>>
              /\ Len(history') = historyIndex + 2
              /\ TopEntry.type = "delete"
              /\ TopEntry.elementIds = selectedIds
              /\ \A id \in Range(selectedIds) : TopEntry.before[id] = Status(St, id)
       /\ (Undo /\ UndoneEntry.type = "delete")
           => \A id \in Range(UndoneEntry.elementIds) :
                 UndoneEntry.before[id] = Null
                     => /\ id \in DOMAIN elements' <=> id \in DOMAIN elements
                        /\ Filter(elementOrder', {id}) = Filter(elementOrder, {id})]_vars

\* C19: updateElementSilent of an existing id makes the elements map that
\* updateElement makes with the same arguments, and leaves history and
\* historyIndex as they were, an existing redo branch included
SilentUpdateSameMerge ==
    [][\A id \in DOMAIN elements : \A updates \in ElementUpdates :
          UpdateElementSilent(id, updates)
              => /\ elements' = updateElement(St, id, updates, now).elements
                 /\ UNCHANGED <<history, historyIndex>>]_vars

\* a silent update changed a live element while the stack held a redo branch
SilentUpdateWitness ==
    /\ lastCall.op = "updateElementSilent"
    /\ lastCall.args[1] \in DOMAIN elements
    /\ elements[lastCall.args[1]].x = GridSize
    /\ elements[lastCall.args[1]].updatedAt = MaxClock
    /\ historyIndex < Len(history) - 1

\* a step of one of the selection operations
SelectionStep ==
    \/ \E ids \in IdLists : SetSelection(ids)
    \/ \E id \in Pool : AddToSelection(id) \/ RemoveFromSelection(id)
    \/ ClearSelection
    \/ SelectAll
    \/ \E id \in Pool \cup {NoId} : SetHovered(id)

\* C20: the selection operations, the z-order operations and
\* duplicateElements leave history and historyIndex as they were, and the
\* selection operations change no store field other than selectedIds and
\* hoveredId
SelectionOrderDuplicateUnrecorded ==
    [][/\ SelectionStep
           => UNCHANGED <<elements, elementKeys, elementOrder, history, historyIndex,
                          clipboard, activeTool, isDrawing, snapToGrid>>
       /\ (BringToFront \/ SendToBack \/ BringForward \/ SendBackward \/ Duplicate)
           => UNCHANGED <<history, historyIndex>>]_vars

\* an element was duplicated, both were selected and restacked and one is
\* hovered, while the stack still holds an undone entry
UnrecordedWitness ==
    /\ Len(history) = 1 /\ historyIndex = -1
    /\ Cardinality(DOMAIN elements) = 2
    /\ Len(selectedIds) = 2
    /\ hoveredId = "e1"
    /\ lastCall.op = "sendToBack"
    /\ elementOrder = selectedIds


\* drawing rectangles, with undo and redo between the gestures
NextDraw ==
    \/ SetTool("rectangle")
    \/ \E p \in PointerPoints : MouseDownShape(p)
    \/ \E p \in PointerPoints : MouseMove(p)
    \/ MouseUp
    \/ Undo
    \/ Redo

SpecDraw == Init /\ [][NextDraw]_vars

\* a pointer-up that ends the drawing of a shape
DrawEnds == MouseUp /\ isDrawing /\ currentElement # Null

\* C21: the pointer-up that ends a drawing adds the draft, with one add entry,
\* selects it alone and switches to the select tool when the draft is more
\* than 5 wide and more than 5 high; otherwise the draft is dropped and the
\* elements, their order and the history stay as they were
DraftCommitOrDiscard ==
    [][DrawEnds =>
          /\ currentElement' = Null
          /\ ~isDrawing'
          /\ IF currentElement.width > 5 /\ currentElement.height > 5
             THEN /\ currentElement.id \notin DOMAIN elements
                  /\ DOMAIN elements' = DOMAIN elements \cup {currentElement.id}
                  /\ \A id \in DOMAIN elements : elements'[id] = elements[id]
                  /\ Box(elements'[currentElement.id]) = Box(currentElement)
                  /\ elementOrder' = Append(elementOrder, currentElement.id)
                  /\ nextEntryId' = nextEntryId + 1
                  /\ AppendsOne([history |-> history', historyIndex |-> historyIndex'],
                                "add", <<currentElement.id>>)
                  /\ selectedIds' = <<currentElement.id>>
                  /\ activeTool' = "select"
             ELSE /\ elements' = elements
                  /\ elementOrder' = elementOrder
                  /\ history' = history
                  /\ historyIndex' = historyIndex]_vars

\* a second rectangle has just been drawn: two add entries, the new element
\* selected alone, the select tool active and no draft left
DraftCommitWitness ==
    /\ Len(history) = 2
    /\ historyIndex = 1
    /\ history[2].type = "add"
    /\ selectedIds = history[2].elementIds
    /\ Len(elementOrder) = 2
    /\ activeTool = "select"
    /\ ~isDrawing
    /\ currentElement = Null


\* a file with two rectangles, the second one off the grid
DragDoc ==
    LET el(id, x, y) == [ImportedElement(id) EXCEPT !.x = x, !.y = y]
    IN [parses |-> TRUE, hasElements |-> TRUE,
        elements |-> ("a" :> el("a", 0, 0)) @@ ("b" :> el("b", 10, 10)),
        elementKeys |-> <<"a", "b">>,
        hasOrder |-> TRUE, elementOrder |-> <<"a", "b">>]

\* the pointer is over the first rectangle alone or over both
DragPoints == {[x |-> 0, y |-> 0], [x |-> 20, y |-> 20]}

\* dragging the elements of an imported document, with undo
NextDrag ==
    \/ Import(DragDoc)
    \/ \E p \in DragPoints, shift \in BOOLEAN : MouseDownHit(p, shift)
    \/ \E p \in DragPoints : MouseMove(p)
    \/ MouseUp
    \/ Undo

SpecDrag == Init /\ [][NextDrag]_vars

\* a pointer-up that ends a drag of elements
DragEnds == MouseUp /\ isDraggingElement /\ Len(draggedElementStart) > 0

\* the ids of the move-set whose element is away from its pointer-down position
RECURSIVE MovedIds(_)
MovedIds(starts) ==
    IF starts = <<>> THEN <<>>
    ELSE LET st == Head(starts)
             away == /\ st.id \in DOMAIN elements
                     /\ (elements[st.id].x # st.x \/ elements[st.id].y # st.y)
         IN (IF away THEN <<st.id>> ELSE <<>>) \o MovedIds(Tail(starts))

\* C22: the pointer-up that ends a drag pushes one update entry for each
\* element of the move-set whose x or y differs from its pointer-down
\* snapshot and none for the others; when no element has moved, the history
\* and its cursor, hence canRedo, are as they were at pointer-down
DragCommitsMovedOnly ==
    [][/\ DragEnds =>
            LET movedIds == MovedIds(draggedElementStart)
                kept == IF movedIds = <<>> THEN history ELSE SubSeq(history, 1, historyIndex + 1)
            IN /\ nextEntryId' = nextEntryId + Len(movedIds)
               /\ Len(history') = Len(kept) + Len(movedIds)
               /\ SubSeq(history', 1, Len(kept)) = kept
               /\ historyIndex' = IF movedIds = <<>> THEN historyIndex ELSE Len(history') - 1
               /\ \A i \in 1..Len(movedIds) :
                     LET entry == history'[Len(kept) + i]
                     IN /\ entry.type = "update"
                        /\ entry.elementIds = <<movedIds[i]>>
                        /\ entry.after[movedIds[i]].x = elements[movedIds[i]].x
                        /\ entry.after[movedIds[i]].y = elements[movedIds[i]].y
               /\ canRedo(St') = (movedIds = <<>> /\ canRedo(St))
       /\ (\E p \in DragPoints, shift \in BOOLEAN : MouseDownHit(p, shift)) =>
              UNCHANGED <<history, historyIndex>>]_vars

\* both rectangles were dragged together by no distance: the one off the grid
\* was snapped onto it and has the only entry, the other has none
DragCommitWitness ==
    /\ ~isDraggingElement
    /\ dragStart = Null
    /\ selectedIds = <<"a", "b">>
    /\ Len(history) = 1
    /\ historyIndex = 0
    /\ history[1].type = "update"
    /\ history[1].elementIds = <<"b">>
    /\ elements["a"].x = 0 /\ elements["a"].y = 0
    /\ elements["b"].x = 20 /\ elements["b"].y = 20


\* a file with one narrow rectangle off the grid
ResizeDoc ==
    LET b == [ImportedElement("b") EXCEPT !.x = 10, !.y = 0, !.width = 10, !.height = 30]
    IN [parses |-> TRUE, hasElements |-> TRUE, elements |-> ("b" :> b),
        elementKeys |-> <<"b">>, hasOrder |-> TRUE, elementOrder |-> <<"b">>]

\* an edge handle of each side but the south, a corner handle and the
\* rotation handle
PressedHandles == {"n", "w", "e", "se", "rotation"}

\* resizing the rectangle of an imported file, selected with Ctrl+A, by the
\* handles of the selection overlay
NextResize ==
    \/ Import(ResizeDoc)
    \/ SelectAll
    \/ \E handle \in PressedHandles : ResizeHandleDown(handle)
    \/ \E p \in PointerPoints : MouseMove(p)
    \/ ToggleGrid
    \/ MouseUp

SpecResize == Init /\ [][NextResize]_vars

\* a pointer-up, or the pointer leaving the canvas, that ends a resize
ResizeEnds == MouseUp /\ isResizing

\* C23: every resize that ends, whatever the number of pointer-moves since the
\* handle was pressed, pushes exactly one history entry, an update of the
\* selected element that holds its final box, and drops the resize snapshot
ResizeCommitsOnce ==
    [][ResizeEnds =>
          /\ resizeStart' = Null
          /\ nextEntryId' = nextEntryId + 1
          /\ Len(selectedIds) = 1
          /\ historyIndex' = Len(history') - 1
          /\ LET entry == history'[Len(history')]
                 id == selectedIds[1]
             IN /\ entry.type = "update"
                /\ entry.elementIds = <<id>>
                /\ Box(entry.after[id]) = Box(elements'[id])]_vars


\* the pointer stays on the x axis
AxisPoints == {[x |-> 0, y |-> 0], [x |-> 20, y |-> 0]}

\* every gesture of the canvas on the rectangle of an imported file: panning
\* with the hand tool, the marquee, dragging, resizing by the south-east
\* handle and drawing; the pointer goes down at either point and moves to the
\* second
NextPointer ==
    \/ Import(ResizeDoc)
    \/ \E tool \in {"select", "hand", "rectangle"} : SetTool(tool)
    \/ \E p \in AxisPoints : MouseDownPan(p)
    \/ \E p \in AxisPoints : MouseDownHit(p, FALSE)
    \/ \E p \in AxisPoints : MouseDownEmpty(p)
    \/ \E p \in AxisPoints : MouseDownShape(p)
    \/ ResizeHandleDown("se")
    \/ MouseMove([x |-> 20, y |-> 0])
    \/ MouseUp

SpecPointer == Init /\ [][NextPointer]_vars

\* the gestures in progress
GesturesInProgress ==
    {g \in {"Panning", "MarqueeSelecting", "DraggingElements", "Resizing", "DrawingShape"} :
        \/ g = "Panning" /\ isPanning
        \/ g = "MarqueeSelecting" /\ selectionBox # Null
        \/ g = "DraggingElements" /\ isDraggingElement
        \/ g = "Resizing" /\ isResizing
        \/ g = "DrawingShape" /\ isDrawing /\ currentElement # Null}

\* C24: at most one of panning, marquee selection, dragging, resizing and
\* drawing with a draft is in progress, whatever the interleaving of
\* pointer-downs, handle presses, pointer-moves, pointer-ups, space key and
\* tool changes
GestureStatesExclusive == Cardinality(GesturesInProgress) <= 1


\* no gesture is in progress and nothing of one is left
Idle ==
    /\ ~isPanning
    /\ ~isDrawing
    /\ ~isResizing
    /\ ~isDraggingElement
    /\ selectionBox = Null
    /\ dragStartCanvas = Null
    /\ draggedElementStart = <<>>
    /\ currentElement = Null
    /\ resizeStart = Null

\* C25: a pointer-up, which is also what the pointer leaving the canvas runs,
\* always ends in Idle: no panning, drawing, resizing or dragging flag, no
\* marquee, no drag snapshot, no draft and, the resize-end effect having run,
\* no resize snapshot
PointerUpReturnsToIdle == [][MouseUp => Idle' /\ dragStart' = Null /\ resizeHandle' = NoHandle]_vars

\* the canvas has been panned and the rectangle resized or dragged, and the
\* last pointer-up has left no gesture behind
ReturnedToIdleWitness ==
    /\ Idle
    /\ dragStart = Null
    /\ transform.x = 20
    /\ Len(history) = 2
    /\ history[2].type = "update"
    /\ activeTool = "rectangle"


\* C26: undo and redo are applied only when no gesture is in progress: a
\* step of either is taken from Idle with the pointer's button up
UndoRedoOnlyWhenIdle == [][(Undo \/ Redo) => Idle /\ dragStart = Null]_vars


\* a pointer-move to p that handleMouseMove takes as a sample of the resize in
\* progress: the snapshot of the first move is there and no earlier branch of
\* the handler applies
ResizeSampleAt(p) ==
    /\ MouseMove(p)
    /\ ~(isPanning /\ dragStart # Null)
    /\ selectionBox = Null
    /\ ~isDraggingElement
    /\ isResizing
    /\ resizeHandle # NoHandle
    /\ Len(selectedIds) = 1
    /\ seenResizeStart # Null
    /\ selectedIds[1] \in DOMAIN elements

ResizeSample == \E p \in PointerPoints : ResizeSampleAt(p)

\* C27: every sample of a resize by a corner or edge handle writes a width
\* and a height of at least 20, and when the width (the height) would have
\* been less than 20 on a handle with w (with n) in its name, x (y) is set so
\* that the east (south) edge is where it was when the resize started
ResizeClampKeepsOppositeEdge ==
    [][\A p \in PointerPoints :
          ResizeSampleAt(p) /\ resizeHandle \in ResizeHandles =>
              LET el == resizeStart.element
                  dx == screenToCanvas(p).x - resizeStart.point.x
                  dy == screenToCanvas(p).y - resizeStart.point.y
                  new == elements'[selectedIds[1]]
              IN /\ new.width >= 20
                 /\ new.height >= 20
                 /\ (resizeHandle \in {"nw", "w", "sw"} /\ el.width - dx < 20) =>
                        new.x + new.width = el.x + el.width
                 /\ (resizeHandle \in {"nw", "n", "ne"} /\ el.height - dy < 20) =>
                        new.y + new.height = el.y + el.height]_vars

\* C28: a sample of a resize by the e, s or se handle leaves x and y at their
\* values of the resize's start, for any pointer delta
ResizeFromEastSouthKeepsPosition ==
    [][ResizeSample /\ resizeHandle \in {"e", "s", "se"} =>
          /\ elements'[selectedIds[1]].x = resizeStart.element.x
          /\ elements'[selectedIds[1]].y = resizeStart.element.y]_vars

\* C29: while the rotation handle is held, a pointer-move sample changes
\* neither x, y, width nor height of the element and does not bring a
\* dimension up to the minimum size
RotationLeavesBox ==
    [][ResizeSample /\ resizeHandle = "rotation" =>
          Box(elements'[selectedIds[1]]) = Box(elements[selectedIds[1]])]_vars


\* corners of marquees over the three rectangles of LayoutDoc: the first two
\* are on empty canvas, the others on the edge of rectangle a and on the far
\* corner of rectangle c
MarqueePoints ==
    {[x |-> 40, y |-> 0], [x |-> 0, y |-> 40], [x |-> 0, y |-> 20], [x |-> 80, y |-> 80]}

\* marquee selection over an imported document
NextMarquee ==
    \/ Import(LayoutDoc)
    \/ SelectAll
    \/ \E p \in MarqueePoints : MouseDownEmpty(p)
    \/ \E p \in MarqueePoints : MouseMove(p)
    \/ MouseUp

SpecMarquee == Init /\ [][NextMarquee]_vars

\* the element's box lies inside the rectangle spanned by the two corners
InsideMarquee(el, box) ==
    /\ el.x >= Min2(box.start.x, box.end.x)
    /\ el.x + el.width <= Max2(box.start.x, box.end.x)
    /\ el.y >= Min2(box.start.y, box.end.y)
    /\ el.y + el.height <= Max2(box.start.y, box.end.y)

\* C30: the pointer-up that ends a marquee replaces selectedIds by exactly the
\* ids of the elements whose box lies entirely inside the rectangle spanned by
\* the marquee's corners, in whatever order the corners are, each id once; the
\* pointer-moves that drag the marquee leave selectedIds alone
MarqueeSelectsContained ==
    [][/\ (MouseUp /\ selectionBox # Null) =>
            /\ Range(selectedIds') = {id \in DOMAIN elements : InsideMarquee(elements[id], selectionBox)}
            /\ Len(selectedIds') = Cardinality(Range(selectedIds'))
            /\ selectionBox' = Null
       /\ ((\E p \in MarqueePoints : MouseMove(p)) /\ selectionBox # Null) =>
            selectedIds' = selectedIds]_vars

\* a marquee has selected rectangle a alone: every marquee that holds a within
\* these corners touches rectangle b without holding it
MarqueeWitness ==
    /\ selectedIds = <<"a">>
    /\ selectionBox = Null
    /\ dragStart = Null
    /\ "b" \in DOMAIN elements


\* ------------------------------------------------------------ distribution
\* a file with three rectangles out of order: b is the widest and leftmost,
\* a the rightmost; from top to bottom they are a, c, b
ShuffledDoc ==
    LET el(id, x, y, w) == [ImportedElement(id) EXCEPT !.x = x, !.y = y, !.width = w]
    IN [parses |-> TRUE, hasElements |-> TRUE,
        elements |-> ("a" :> el("a", 60, 0, 20)) @@ ("b" :> el("b", 0, 60, 40))
                         @@ ("c" :> el("c", 20, 20, 20)),
        elementKeys |-> <<"a", "b", "c">>,
        hasOrder |-> TRUE, elementOrder |-> <<"a", "b", "c">>]

\* the ids a caller hands to distributeElements: the elements of the two
\* files and an id no file holds
DistributeNames == {"a", "b", "c", "zz"}

\* argument lists of different ids, live or not, in any order
DistributeLists ==
    UNION {{ids \in [1..n -> DistributeNames] : \A i, j \in 1..n : ids[i] = ids[j] => i = j}
           : n \in 0..Cardinality(DistributeNames)}

Directions == {"horizontal", "vertical"}

DistributeElements(ids, direction) ==
    LET els == Found(St, ids)
        sorted == SortBy(els, IF direction = "horizontal" THEN "x" ELSE "y")
    IN /\ Len(els) >= 3 => Exact(DistributeGapNumerator(sorted, direction), Len(sorted) - 1)
       /\ StoreOnly([distributeElements(Begin, ids, direction)
                         EXCEPT !.lastCall = Call("distributeElements", <<ids, direction>>)])

\* distributeElements called directly on imported rows of three
NextDistribute ==
    \/ \E doc \in {LayoutDoc, ShuffledDoc} : Import(doc)
    \/ \E ids \in DistributeLists : \E direction \in Directions : DistributeElements(ids, direction)

SpecDistribute == Init /\ [][NextDistribute]_vars

\* three elements in a row: x = 0, 50, 250, each 50 wide
ScenarioB ==
    LET el(id, x) == [ImportedElement(id) EXCEPT !.x = x, !.width = 50]
    IN [initialState EXCEPT
            !.elements = ("a" :> el("a", 0)) @@ ("b" :> el("b", 50)) @@ ("c" :> el("c", 250)),
            !.elementKeys = <<"a", "b", "c">>,
            !.elementOrder = <<"a", "b", "c">>]

\* the position and the size of an element along the axis of a distribution
Along(el, direction) == IF direction = "horizontal" THEN el.x ELSE el.y
SizeAlong(el, direction) == IF direction = "horizontal" THEN el.width ELSE el.height

\* the elements named by sq, taken in that order, lie in elements' with the
\* same gap between each and the next, the first and the last where they
\* were in elements
EvenlySpaced(sq, direction) ==
    LET n == Len(sq)
        old(i) == elements[sq[i]]
        new(i) == elements'[sq[i]]
        total == SumOver([i \in 1..n |-> old(i)], IF direction = "horizontal" THEN "width" ELSE "height")
        span == (Along(old(n), direction) + SizeAlong(old(n), direction)) - Along(old(1), direction)
    IN /\ \A i \in 1..(n - 1) : Along(old(i), direction) <= Along(old(i + 1), direction)
       /\ Along(new(1), direction) = Along(old(1), direction)
       /\ Along(new(n), direction) = Along(old(n), direction)
       /\ \A i \in 1..(n - 1) :
              (Along(new(i + 1), direction) - (Along(new(i), direction) + SizeAlong(old(i), direction)))
                  * (n - 1) = span - total

\* C31: distributeElements on three or more existing elements takes them in
\* ascending order along the axis, leaves the first and the last where they
\* are and places the others so that every gap between neighbours is
\* (outer span - sum of the sizes) / (count - 1); x = 0, 50, 250 with width 50
\* each become x = 0, 125, 250; with fewer than three existing elements
\* nothing changes
DistributeEvenGaps ==
    [][/\ lastCall'.op = "distributeElements" =>
                  LET ids == lastCall'.args[1]
                      direction == lastCall'.args[2]
                      live == Range(ids) \cap DOMAIN elements
                      n == Cardinality(live)
                  IN IF n < 3
                     THEN UNCHANGED <<elements, elementKeys, elementOrder, selectedIds,
                                      history, historyIndex>>
                     ELSE /\ DOMAIN elements' = DOMAIN elements
                          /\ \E sq \in [1..n -> live] :
                                 /\ Range(sq) = live
                                 /\ EvenlySpaced(sq, direction)
       /\ LET after == distributeElements(ScenarioB, <<"a", "b", "c">>, "horizontal").elements
          IN after["a"].x = 0 /\ after["b"].x = 125 /\ after["c"].x = 250]_vars

\* the shuffled row distributed horizontally from a list that also names an
\* absent id: b, c, a now lie at 0, 40 and 60
DistributeWitness ==
    /\ lastCall.op = "distributeElements"
    /\ lastCall.args[2] = "horizontal"
    /\ "zz" \in Range(lastCall.args[1])
    /\ DOMAIN elements = {"a", "b", "c"}
    /\ elements["b"].x = 0 /\ elements["c"].x = 40 /\ elements["a"].x = 60


\* ----------------------------------------------------------------- zoom
\* scales are followed while their numerator and denominator have at most
\* MaxScaleDigits digits
ScaleWithin(s) ==
    /\ Abs(s.transform.scale.num) < 10 ^ MaxScaleDigits
    /\ s.transform.scale.den < 10 ^ MaxScaleDigits

\* a step of the store that changes the viewport only
ViewOnly(s) ==
    /\ ScaleWithin(s)
    /\ Apply(s)
    /\ UNCHANGED <<canvasVars, now, gestureStart>>
    /\ Render(FALSE)

\* Ctrl + "=" or the zoom-in button
ZoomIn == ViewOnly(zoomIn(Begin))

\* Ctrl + "-" or the zoom-out button
ZoomOut == ViewOnly(zoomOut(Begin))

\* Ctrl + "0" or the reset button
ResetZoom == ViewOnly(resetZoom(Begin))

\* the browser window: innerWidth and innerHeight
Views == {[innerWidth |-> 1280, innerHeight |-> 720]}

\* Ctrl + "1" or the fit button, in a window in which the offsets of the
\* fitted view are whole numbers
ZoomToFit(view) ==
    LET els == Values(St)
        bounds == getElementsBounds(els)
        scale == FitScale(bounds, view)
    IN /\ Len(els) > 0 =>
              /\ bounds.width > 0 /\ bounds.height > 0
              /\ IsWhole(FitOffset(bounds.x, bounds.width, view.innerWidth, scale))
              /\ IsWhole(FitOffset(bounds.y, bounds.height, view.innerHeight, scale))
       /\ ViewOnly(zoomToFit(Begin, view))

\* mouse - (mouse - offset) * (newScale / scale)
WheelOffset(mouse, offset, newScale, scale) ==
    LET r == Over(newScale, scale)
    IN Ratio(mouse * r.den - (mouse - offset) * r.num, r.den)

\* a turn of the wheel with the pointer at p; down says deltaY > 0; the
\* pointer is where the new offsets are whole numbers
Wheel(p, down) ==
    LET delta == IF down THEN WheelOut ELSE WheelIn
        newScale == MinRatio(MaxRatio(Times(transform.scale, delta), MinScale), MaxScale)
        newX == WheelOffset(p.x, transform.x, newScale, transform.scale)
        newY == WheelOffset(p.y, transform.y, newScale, transform.scale)
    IN /\ IsWhole(newX) /\ IsWhole(newY)
       /\ ViewOnly(setTransform(Begin, [x |-> Whole(newX), y |-> Whole(newY), scale |-> newScale]))

\* a file holding one rectangle far wider than the window
WideDoc ==
    [parses |-> TRUE, hasElements |-> TRUE,
     elements |-> ("e1" :> [ImportedElement("e1") EXCEPT !.width = 12000, !.height = 200]),
     elementKeys |-> <<"e1">>, hasOrder |-> TRUE, elementOrder |-> <<"e1">>]

\* where the wheel is turned: over the canvas origin of the initial and of
\* the fitted view, and one grid cell to the right of the first
WheelPoints == {[x |-> 0, y |-> 0], [x |-> 20, y |-> 0], [x |-> 100, y |-> 351]}

\* zooming and panning over an imported document
NextZoom ==
    \/ \E doc \in {SingleDoc, WideDoc} : Import(doc)
    \/ ZoomIn
    \/ ZoomOut
    \/ ResetZoom
    \/ \E view \in Views : ZoomToFit(view)
    \/ \E p \in WheelPoints : \E down \in BOOLEAN : Wheel(p, down)
    \/ SetTool("hand")
    \/ \E p \in AxisPoints : MouseDownPan(p)
    \/ \E p \in AxisPoints : isPanning /\ MouseMove(p)
    \/ MouseUp

SpecZoom == Init /\ [][NextZoom]_vars

\* C32: the viewport scale stays within [0.1, 10] in every reachable state,
\* after any sequence of zoomIn, zoomOut, wheel zoom, zoomToFit, resetZoom
\* and panning
ScaleInRange ==
    /\ ~Less(transform.scale, MinScale)
    /\ ~Less(MaxScale, transform.scale)


\* ------------------------------------------------------------- updatedAt
\* updates, grouping, alignment and distribution of an imported row while
\* the clock runs
NextTouch ==
    \/ Tick
    \/ Import(LayoutDoc)
    \/ SelectAll
    \/ UpdateElement("a", [locked |-> TRUE])
    \/ UpdateElementSilent("a", [locked |-> TRUE])
    \/ Group
    \/ Ungroup
    \/ Align("left")
    \/ Distribute("horizontal")

SpecTouch == Init /\ [][NextTouch]_vars

\* a step of one of the operations that change elements in place
TouchStep ==
    \/ UpdateElement("a", [locked |-> TRUE])
    \/ UpdateElementSilent("a", [locked |-> TRUE])
    \/ Group
    \/ Ungroup
    \/ Align("left")
    \/ Distribute("horizontal")

\* C33: every store operation that changes a field of a live element in
\* place (updateElement, updateElementSilent, group, ungroup, alignElements,
\* distributeElements) sets that element's updatedAt to the time of the
\* operation
ChangeBumpsUpdatedAt ==
    [][TouchStep =>
           \A id \in DOMAIN elements \cap DOMAIN elements' :
               elements'[id] # elements[id] => elements'[id].updatedAt = now]_vars


\* C34: setTool with a tool other than select empties selectedIds, and
\* setTool('select') leaves selectedIds as it is; in both cases elements,
\* elementOrder and the history are unchanged
SetToolClearsSelectionOnly ==
    [][\A tool \in {"select", "hand", "rectangle"} :
           SetTool(tool) =>
               /\ activeTool' = tool
               /\ selectedIds' = IF tool = "select" THEN selectedIds ELSE <<>>
               /\ UNCHANGED <<elements, elementOrder, history, historyIndex>>]_vars

\* the rectangle tool chosen in a document with an element and a history
\* entry: nothing is selected
SetToolWitness ==
    /\ activeTool = "rectangle"
    /\ selectedIds = <<>>
    /\ DOMAIN elements # {}
    /\ Len(history) > 0
    /\ ~isDrawing


\* --------------------------------------------------- restored z-positions
\* rectangles of an imported row picked by a click, deleted or locked, and
\* brought back by undo and redo
NextRestore ==
    \/ Import(LayoutDoc)
    \/ \E p \in {[x |-> 0, y |-> 0], [x |-> 20, y |-> 20]} : MouseDownHit(p, FALSE)
    \/ MouseUp
    \/ DeleteSelected
    \/ ToggleLock
    \/ Undo
    \/ Redo

SpecRestore == Init /\ [][NextRestore]_vars

\* the entry restores every id it names to the given side; after the step
\* the ids that elementOrder did not hold follow it in the entry's order and
\* nothing else in elementOrder has changed
RestoredOnTop(entry, side) ==
    (\A id \in Range(entry.elementIds) : side[id] # Null) =>
        elementOrder' = elementOrder \o Filter(entry.elementIds,
                                               Range(entry.elementIds) \ Range(elementOrder))

\* C35: when undo or redo restores an element whose id is not in
\* elementOrder, the id is appended at the end of elementOrder, whatever
\* z-position it had before it was removed; when the id is already in
\* elementOrder its position is unchanged and no duplicate is added
RestoredIdsGoOnTop ==
    [][/\ UndoStep => RestoredOnTop(history[historyIndex + 1], history[historyIndex + 1].before)
       /\ RedoStep => RestoredOnTop(history[historyIndex + 2], history[historyIndex + 2].after)]_vars

\* the bottom rectangle a was deleted and the deletion undone: a is back,
\* now above b and c
RestoredOnTopWitness ==
    /\ elementOrder = <<"b", "c", "a">>
    /\ "a" \in DOMAIN elements
    /\ Len(history) = 1 /\ historyIndex = -1
    /\ history[1].type = "delete"


\* a pointer-down that starts the drawing of a shape, or a pointer-move while
\* a shape is drawn
DrawStep ==
    \/ \E p \in PointerPoints : MouseDownShape(p)
    \/ isDrawing /\ currentElement # Null /\ \E p \in PointerPoints : MouseMove(p)

\* C36: the draft stays outside the store until it is committed: the
\* pointer-down that starts a drawing and every pointer-move of the gesture
\* leave elements, elementOrder, history and historyIndex unchanged, and the
\* draft's id is not a key of elements
DraftOutsideStore ==
    [][DrawStep =>
           /\ UNCHANGED <<elements, elementOrder, history, historyIndex>>
           /\ currentElement' # Null
           /\ currentElement'.id \notin DOMAIN elements']_vars

\* a second rectangle is being drawn above the first one: the draft has a
\* size, and the store holds the first rectangle and its add entry only
DraftOutsideWitness ==
    /\ isDrawing
    /\ currentElement # Null
    /\ currentElement.width > 0 /\ currentElement.height > 0
    /\ Cardinality(DOMAIN elements) = 1
    /\ Len(history) = 1 /\ historyIndex = 0
    /\ currentElement.id \notin DOMAIN elements


\* ------------------------------------------------------ text and sticky
\* clicks with the text and the sticky tool, the space key pressed and
\* released in between
NextNote ==
    \/ \E tool \in {"text", "sticky"} : SetTool(tool)
    \/ SpaceDown
    \/ SpaceUp
    \/ \E p \in AxisPoints : MouseDownText(p)
    \/ \E p \in AxisPoints : MouseDownSticky(p)
    \/ \E p \in AxisPoints : MouseDownPan(p)
    \/ MouseUp

SpecNote == Init /\ [][NextNote]_vars

\* a primary-button pointer-down on the canvas at p, by the branch of
\* handleMouseDown that is taken
PointerDown(p) == MouseDownPan(p) \/ MouseDownText(p) \/ MouseDownSticky(p)

\* C37: with the text or the sticky tool active and the space key not held,
\* a primary-button pointer-down adds exactly one element of the default
\* size (text 100 x 30, sticky 200 x 200) at the grid-snapped click point
\* with exactly one add entry, selects exactly that element and enters no
\* gesture state: isDrawing, isPanning and isDraggingElement stay false and
\* there is no marquee
ClickPlacesNote ==
    [][\A p \in AxisPoints :
           (/\ PointerDown(p)
            /\ activeTool \in {"text", "sticky"}
            /\ ~isSpacePressed
            /\ ~isDrawing /\ ~isPanning /\ ~isDraggingElement /\ selectionBox = Null)
           => /\ \E id \in DOMAIN elements' \ DOMAIN elements :
                    /\ DOMAIN elements' = DOMAIN elements \cup {id}
                    /\ elements'[id].type = activeTool
                    /\ elements'[id].x = Snap(screenToCanvas(p).x, snapToGrid)
                    /\ elements'[id].y = Snap(screenToCanvas(p).y, snapToGrid)
                    /\ elements'[id].width = IF activeTool = "text" THEN 100 ELSE 200
                    /\ elements'[id].height = IF activeTool = "text" THEN 30 ELSE 200
                    /\ elementOrder' = Append(elementOrder, id)
                    /\ AppendsOne([history |-> history', historyIndex |-> historyIndex'],
                                  "add", <<id>>)
                    /\ nextEntryId' = nextEntryId + 1
                    /\ selectedIds' = <<id>>
              /\ \A id \in DOMAIN elements : elements'[id] = elements[id]
              /\ ~isDrawing' /\ ~isPanning' /\ ~isDraggingElement' /\ selectionBox' = Null]_vars


\* ------------------------------------------------- Escape during a drag
\* dragging the rectangles of an imported document, the Escape key pressed
\* at any moment
NextEscape ==
    \/ Import(DragDoc)
    \/ \E p \in DragPoints, shift \in BOOLEAN : MouseDownHit(p, shift)
    \/ \E p \in DragPoints : MouseMove(p)
    \/ MouseUp
    \/ Escape

SpecEscape == Init /\ [][NextEscape]_vars

\* a drag during which Escape has emptied the selection
DragAfterEscape == isDraggingElement /\ Len(draggedElementStart) > 0 /\ selectedIds = <<>>

\* C38: Escape during a drag of elements empties selectedIds and sets the
\* tool to select, but neither ends the drag nor moves the elements back to
\* their snapshot positions: the drag stays active until pointer-up, later
\* pointer-moves still move the snapshot elements, and pointer-up still
\* commits their final positions
EscapeKeepsDrag ==
    [][/\ (Escape /\ isDraggingElement) =>
              /\ selectedIds' = <<>>
              /\ activeTool' = "select"
              /\ isDraggingElement'
              /\ UNCHANGED <<elements, draggedElementStart, dragStartCanvas, history, historyIndex>>
       /\ \A p \in DragPoints : (MouseMove(p) /\ DragAfterEscape) =>
              /\ isDraggingElement'
              /\ \A i \in 1..Len(draggedElementStart) :
                     LET st == draggedElementStart[i]
                     IN /\ elements'[st.id].x
                             = Snap(st.x + screenToCanvas(p).x - dragStartCanvas.x, snapToGrid)
                        /\ elements'[st.id].y
                             = Snap(st.y + screenToCanvas(p).y - dragStartCanvas.y, snapToGrid)
       /\ (MouseUp /\ DragAfterEscape) =>
              LET movedIds == MovedIds(draggedElementStart)
              IN /\ ~isDraggingElement'
                 /\ draggedElementStart' = <<>>
                 /\ elements' = elements
                 /\ Len(history') = historyIndex + 1 + Len(movedIds)
                 /\ \A i \in 1..Len(movedIds) :
                        LET entry == history'[historyIndex + 1 + i]
                        IN /\ entry.type = "update"
                           /\ entry.elementIds = <<movedIds[i]>>
                           /\ entry.after[movedIds[i]].x = elements[movedIds[i]].x
                           /\ entry.after[movedIds[i]].y = elements[movedIds[i]].y]_vars

\* rectangle a is being dragged, Escape has emptied the selection, and a has
\* left its pointer-down position
EscapeDuringDragWitness ==
    /\ DragAfterEscape
    /\ draggedElementStart[1].id = "a"
    /\ draggedElementStart[1].x = 0
    /\ elements["a"].x = 20
    /\ activeTool = "select"


\* -------------------------------------------------------- history cursor
\* Ctrl+Z and Ctrl+Y: undo and redo are called whatever the cursor is
UndoKey == StoreOnly(undo(Begin))

RedoKey == StoreOnly(redo(Begin))

\* the long session continued with the lock toggle, Ctrl+Z and Ctrl+Y,
\* import and clear
NextHistory ==
    \/ ToggleLock
    \/ UndoKey
    \/ RedoKey
    \/ Import(SingleDoc)
    \/ Clear

SpecHistory == InitFull /\ [][NextHistory]_vars

CursorInRange ==
    /\ -1 <= historyIndex
    /\ historyIndex <= Len(history) - 1
    /\ Len(history) <= 100

\* C39: in every reachable state -1 <= historyIndex <= length(history) - 1
\* and length(history) <= 100; undo with the cursor at -1 and redo with the
\* cursor on the last entry leave the whole state unchanged, and undo and
\* redo change the cursor and the document only, never the list of entries
HistoryCursorInvariant ==
    /\ CursorInRange
    /\ [][/\ CursorInRange'
          /\ (UndoKey /\ historyIndex = -1) => UNCHANGED <<storeVars, canvasVars>>
          /\ (RedoKey /\ historyIndex = Len(history) - 1) => UNCHANGED <<storeVars, canvasVars>>
          /\ (UndoKey \/ RedoKey) =>
                 /\ history' = history
                 /\ UNCHANGED <<selectedIds, clipboard, activeTool, isDrawing, snapToGrid,
                                hoveredId, transform, gridEnabled, isPanning, isResizing,
                                resizeHandle, canvasVars>>]_vars

\* a full stack, its oldest entry dropped, undone down to the bottom
UndoneToBottomWitness ==
    /\ Len(history) = MaxHistory
    /\ historyIndex = -1
    /\ removed # {}
    /\ lastCall = NoCall


\* ------------------------------------------------------ lines and arrows
ToggleSnapToGrid == StoreOnly(toggleSnapToGrid(Begin))

\* where the pointer goes down and moves while a line is drawn: on the grid
\* and, for drafts drawn without snapping, around the commit threshold
LinePoints ==
    {[x |-> 0, y |-> 0], [x |-> 20, y |-> 0], [x |-> 0, y |-> 20], [x |-> 20, y |-> 20],
     [x |-> 5, y |-> 6], [x |-> 6, y |-> 6]}

\* drawing lines and arrows, with and without snapping to the grid
NextLine ==
    \/ \E tool \in {"line", "arrow"} : SetTool(tool)
    \/ ToggleSnapToGrid
    \/ MouseDownLine([x |-> 0, y |-> 0])
    \/ \E p \in LinePoints : MouseMove(p)
    \/ MouseUp

SpecLine == Init /\ [][NextLine]_vars

\* a line or an arrow is being drawn
DrawingLine ==
    isDrawing /\ currentElement # Null /\ dragStart # Null /\ currentElement.type \in {"line", "arrow"}

\* C40: a line or arrow draft is committed only when both the horizontal and
\* the vertical distance between its grid-snapped start and end points
\* exceed 5: its box is max(|dx|, 1) by max(|dy|, 1) and the commit requires
\* width > 5 and height > 5, so that a purely horizontal or purely vertical
\* drag of any length adds no element and no history entry
LineCommitNeedsBothDistances ==
    [][/\ \A p \in LinePoints : (MouseMove(p) /\ DrawingLine) =>
              LET dx == Snap(screenToCanvas(p).x, snapToGrid) - Snap(screenToCanvas(dragStart).x, snapToGrid)
                  dy == Snap(screenToCanvas(p).y, snapToGrid) - Snap(screenToCanvas(dragStart).y, snapToGrid)
              IN /\ currentElement'.width = Max2(Abs(dx), 1)
                 /\ currentElement'.height = Max2(Abs(dy), 1)
                 /\ UNCHANGED <<elements, history, historyIndex>>
       /\ (MouseUp /\ DrawingLine) =>
              IF currentElement.width > 5 /\ currentElement.height > 5
              THEN /\ DOMAIN elements' = DOMAIN elements \cup {currentElement.id}
                   /\ AppendsOne([history |-> history', historyIndex |-> historyIndex'],
                                 "add", <<currentElement.id>>)
              ELSE UNCHANGED <<elements, elementOrder, history, historyIndex>>]_vars

\* a horizontal line dragged over one grid cell: its box is 20 by 1, and
\* nothing has been added
HorizontalLineWitness ==
    /\ DrawingLine
    /\ currentElement.type = "line"
    /\ currentElement.width = 20
    /\ currentElement.height = 1
    /\ DOMAIN elements = {}
    /\ history = <<>>
====
